---------------------------- MODULE Spec2Model ----------------------------
(***************************************************************************)
(* Model of the adaptive execution engine of day62_rust_jit_compiler:      *)
(* JitCompiler (jit/mod.rs) with its hotspot cache, statistics, the tree   *)
(* walking Interpreter (interpreter/mod.rs) and the x86-64 code generator  *)
(* (jit/codegen.rs).                                                       *)
(***************************************************************************)
EXTENDS Integers, Sequences, FiniteSets, TLC

VARIABLES
    jit_cache,   \* JitCompiler.jit_cache : fingerprint -> JitEntry
    stats,       \* JitCompiler.stats : JitStats
    env,         \* JitCompiler.interpreter.env.variables : name -> i64
    codegen,     \* JitCompiler.codegen : X86CodeGenerator {code, variables, stack_offset}
    last,        \* history: what the last operation did and returned
    calls,       \* history: execute(e) calls per expression since new()/reset_stats()
    gens,        \* history: successful generations per fingerprint since new()/reset_stats()
    failed,      \* history: fingerprints whose present entry saw generate return Err
    evictions,   \* history: evictions per fingerprint since new()/reset_stats()
    steps,       \* history: execute calls since new()
    mutex,       \* api: the Mutex around the JitCompiler {holder, poisoned}
    threads,     \* api: the request threads {pc, request, code, elapsed, response}
    connections, \* api: connections accepted so far
    memory       \* the ExecutableMemory values alive, and the last call on one

jit_vars == <<jit_cache, stats, env, codegen, last, calls, gens, failed, evictions, steps>>

api_vars == <<mutex, threads, connections>>

mem_vars == <<memory>>

vars == <<jit_cache, stats, env, codegen, last, calls, gens, failed, evictions, steps,
          mutex, threads, connections, memory>>

---------------------------------------------------------------------------
(* ast/mod.rs : Expr and BinaryOp *)

Number(n) == [kind |-> "Number", n |-> n]

Variable(name) == [kind |-> "Variable", name |-> name]

Binary(left, op, right) == [kind |-> "Binary", left |-> left, op |-> op, right |-> right]

Assignment(name, value) == [kind |-> "Assignment", name |-> name, value |-> value]

FunctionCall(name, args) == [kind |-> "FunctionCall", name |-> name, args |-> args]

If(condition, true_expr, false_expr) ==
    [kind |-> "If", condition |-> condition, true_expr |-> true_expr, false_expr |-> false_expr]

BinaryOp == {"Add", "Sub", "Mul", "Div", "Mod", "Equal", "NotEqual",
             "Less", "Greater", "LessEq", "GreaterEq"}

\* Environment::new : no variable is bound
EmptyEnv == [name \in {} |-> 0]

\* Environment::set
EnvSet(e, name, value) ==
    [k \in (DOMAIN e) \cup {name} |-> IF k = name THEN value ELSE e[k]]

---------------------------------------------------------------------------
(* interpreter/mod.rs *)

\* i64 `/` truncates toward zero (b # 0)
Quot(a, b) ==
    LET q == (IF a < 0 THEN -a ELSE a) \div (IF b < 0 THEN -b ELSE b)
    IN  IF (a < 0) = (b < 0) THEN q ELSE -q

\* i64 `%` takes the sign of the dividend (b # 0)
Rem(a, b) == a - b * Quot(a, b)

RECURSIVE fibonacci(_)
fibonacci(n) == IF n <= 1 THEN n ELSE fibonacci(n - 1) + fibonacci(n - 2)

RECURSIVE factorial(_)
factorial(n) == IF n <= 1 THEN 1 ELSE n * factorial(n - 1)

RECURSIVE PowU(_, _)
PowU(base, exp) == IF exp = 0 THEN 1 ELSE base * PowU(base, exp - 1)

power(base, exp) == IF exp = 0 THEN 1 ELSE IF exp < 0 THEN 0 ELSE PowU(base, exp)

EvalOk(v, e) == [ok |-> TRUE, value |-> v, env |-> e, err |-> ""]

EvalErr(msg, e) == [ok |-> FALSE, value |-> 0, env |-> e, err |-> msg]

\* the `match op` of Expr::Binary
ApplyOp(op, l, r, e) ==
    CASE op = "Add" -> EvalOk(l + r, e)
      [] op = "Sub" -> EvalOk(l - r, e)
      [] op = "Mul" -> EvalOk(l * r, e)
      [] op = "Div" -> IF r = 0 THEN EvalErr("Division by zero", e) ELSE EvalOk(Quot(l, r), e)
      [] op = "Mod" -> IF r = 0 THEN EvalErr("Division by zero", e) ELSE EvalOk(Rem(l, r), e)
      [] op = "Equal" -> EvalOk(IF l = r THEN 1 ELSE 0, e)
      [] op = "NotEqual" -> EvalOk(IF l # r THEN 1 ELSE 0, e)
      [] op = "Less" -> EvalOk(IF l < r THEN 1 ELSE 0, e)
      [] op = "Greater" -> EvalOk(IF l > r THEN 1 ELSE 0, e)
      [] op = "LessEq" -> EvalOk(IF l <= r THEN 1 ELSE 0, e)
      [] op = "GreaterEq" -> EvalOk(IF l >= r THEN 1 ELSE 0, e)

\* Interpreter::eval_expr : the value or the error, and the environment it leaves
RECURSIVE eval_expr(_, _)
eval_expr(expr, e) ==
    CASE expr.kind = "Number" -> EvalOk(expr.n, e)
      [] expr.kind = "Variable" ->
            IF expr.name \in DOMAIN e
            THEN EvalOk(e[expr.name], e)
            ELSE EvalErr("Undefined variable: " \o expr.name, e)
      [] expr.kind = "Binary" ->
            LET l == eval_expr(expr.left, e)
            IN  IF ~l.ok THEN l
                ELSE LET r == eval_expr(expr.right, l.env)
                     IN  IF ~r.ok THEN r ELSE ApplyOp(expr.op, l.value, r.value, r.env)
      [] expr.kind = "Assignment" ->
            LET v == eval_expr(expr.value, e)
            IN  IF ~v.ok THEN v ELSE EvalOk(v.value, EnvSet(v.env, expr.name, v.value))
      [] expr.kind = "FunctionCall" ->
            CASE expr.name \in {"fib", "fact"} ->
                    IF Len(expr.args) # 1
                    THEN EvalErr(expr.name \o "() expects 1 argument, got "
                                    \o ToString(Len(expr.args)), e)
                    ELSE LET a == eval_expr(expr.args[1], e)
                         IN  IF ~a.ok THEN a
                             ELSE EvalOk(IF expr.name = "fib" THEN fibonacci(a.value)
                                         ELSE factorial(a.value), a.env)
              [] expr.name = "pow" ->
                    IF Len(expr.args) # 2
                    THEN EvalErr("pow() expects 2 arguments, got "
                                    \o ToString(Len(expr.args)), e)
                    ELSE LET b == eval_expr(expr.args[1], e)
                         IN  IF ~b.ok THEN b
                             ELSE LET x == eval_expr(expr.args[2], b.env)
                                  IN  IF ~x.ok THEN x
                                      ELSE EvalOk(power(b.value, x.value), x.env)
              [] OTHER -> EvalErr("Unknown function: " \o expr.name, e)
      [] expr.kind = "If" ->
            LET c == eval_expr(expr.condition, e)
            IN  IF ~c.ok THEN c
                ELSE IF c.value # 0 THEN eval_expr(expr.true_expr, c.env)
                     ELSE eval_expr(expr.false_expr, c.env)

\* ExecutionResult of Ok(..), or the Err(..) of `?`.  An Err carries only its
\* message; the other fields are fillers that keep the records uniform.
ExecOutcome(r, time) ==
    IF r.ok
    THEN [ok |-> TRUE, value |-> r.value, environment |-> r.env,
          execution_time_ns |-> time, was_jit_compiled |-> FALSE, err |-> ""]
    ELSE [ok |-> FALSE, value |-> 0, environment |-> EmptyEnv,
          execution_time_ns |-> 0, was_jit_compiled |-> FALSE, err |-> r.err]

\* an evaluation that runs both branches of a conditional, the true branch
\* first, and then selects the value by the condition
evaluate_bothBranches(expr, e, time) ==
    LET r == IF expr.kind # "If" THEN eval_expr(expr, e)
             ELSE LET c == eval_expr(expr.condition, e)
                  IN  IF ~c.ok THEN c
                      ELSE LET t == eval_expr(expr.true_expr, c.env)
                           IN  IF ~t.ok THEN t
                               ELSE LET f == eval_expr(expr.false_expr, t.env)
                                    IN  IF ~f.ok THEN f
                                        ELSE EvalOk(IF c.value # 0 THEN t.value
                                                    ELSE f.value, f.env)
    IN  [result |-> ExecOutcome(r, time), env |-> r.env]

\* an evaluation that restores the environment it started from when it fails
evaluate_rollback(expr, e, time) ==
    LET r == eval_expr(expr, e)
    IN  [result |-> ExecOutcome(r, time), env |-> IF r.ok THEN r.env ELSE e]

\* Interpreter::evaluate (the sleep only delays): the outcome and the
\* environment the interpreter is left with; `time` is the measured elapsed time
evaluate(expr, e, time) ==
    LET r == eval_expr(expr, e) IN [result |-> ExecOutcome(r, time), env |-> r.env]

\* a compiled path that returns what ExecutableMemory::execute returns (42)
evaluate_without_delay_dummy(expr, e, time) ==
    LET r == eval_expr(expr, e)
    IN  [result |-> ExecOutcome([r EXCEPT !.value = 42], time), env |-> r.env]

\* a compiled path that runs the machine code, which cannot report an error:
\* always Ok, with what ExecutableMemory::execute returns
evaluate_without_delay_native(expr, e, time) ==
    [result |-> ExecOutcome(EvalOk(42, e), time), env |-> e]

\* Interpreter::evaluate_without_delay
evaluate_without_delay(expr, e, time) ==
    LET r == eval_expr(expr, e) IN [result |-> ExecOutcome(r, time), env |-> r.env]

---------------------------------------------------------------------------
(* jit/codegen.rs : X86CodeGenerator *)

\* to_le_bytes of the low n bytes of the two's complement of v
RECURSIVE LeBytes(_, _)
LeBytes(v, n) == IF n = 0 THEN <<>> ELSE <<v % 256>> \o LeBytes(v \div 256, n - 1)

\* X86CodeGenerator::new
NewCodegen == [code |-> <<>>, variables |-> EmptyEnv, stack_offset |-> 0]

Emit(g, bytes) == [g EXCEPT !.code = @ \o bytes]

\* push rbp ; mov rbp, rsp
emit_prologue(g) == Emit(g, <<85, 72, 137, 229>>)

\* mov rsp, rbp ; pop rbp ; ret
emit_epilogue(g) == Emit(g, <<72, 137, 236, 93, 195>>)

\* mov eax, imm32 (b8) for -128..127, else mov rax, imm64 (48 b8)
emit_mov_rax_imm(g, value) ==
    IF value >= -128 /\ value <= 127
    THEN Emit(g, <<184>> \o LeBytes(value, 4))
    ELSE Emit(g, <<72, 184>> \o LeBytes(value, 8))

emit_push_rax(g) == Emit(g, <<80>>)

\* the pop left out
emit_pop_rcx_missing(g) == g

emit_pop_rcx(g) == Emit(g, <<89>>)

emit_add_rax_rcx(g) == Emit(g, <<72, 1, 200>>)

emit_sub_rax_rcx(g) == Emit(g, <<72, 41, 200>>)

emit_mul_rax_rcx(g) == Emit(g, <<72, 247, 225>>)

\* xor rdx, rdx ; div rcx
emit_div_rax_rcx(g) == Emit(g, <<72, 49, 210, 72, 247, 241>>)

emit_test_rax(g) == Emit(g, <<72, 133, 192>>)

\* cmp rax, rcx ; sete al ; movzx rax, al
emit_cmp_equal(g) == Emit(g, <<72, 57, 200, 15, 148, 192, 72, 15, 182, 192>>)

\* cmp rax, rcx ; setl al ; movzx rax, al
emit_cmp_less(g) == Emit(g, <<72, 57, 200, 15, 156, 192, 72, 15, 182, 192>>)

\* cmp rax, rcx ; setg al ; movzx rax, al
emit_cmp_greater(g) == Emit(g, <<72, 57, 200, 15, 159, 192, 72, 15, 182, 192>>)

\* mov [rbp + offset], rax
emit_mov_stack_rax(g, offset) ==
    IF offset >= -128 /\ offset <= 127
    THEN Emit(g, <<72, 137, 69>> \o LeBytes(offset, 1))
    ELSE Emit(g, <<72, 137, 133>> \o LeBytes(offset, 4))

\* mov rax, [rbp + offset]
emit_mov_rax_stack(g, offset) ==
    IF offset >= -128 /\ offset <= 127
    THEN Emit(g, <<72, 139, 69>> \o LeBytes(offset, 1))
    ELSE Emit(g, <<72, 139, 133>> \o LeBytes(offset, 4))

\* jz rel32 with a zero displacement; pos is the 0-based index of the displacement
emit_jz_placeholder(g) ==
    [g |-> Emit(g, <<15, 132, 0, 0, 0, 0>>), pos |-> Len(g.code) + 2]

\* jmp rel32 with a zero displacement
emit_jmp_placeholder(g) ==
    [g |-> Emit(g, <<233, 0, 0, 0, 0>>), pos |-> Len(g.code) + 1]

\* the displacement counted from the displacement field, not from its end
patch_jump_fromField(g, jump_pos, target_pos) ==
    LET bytes == LeBytes(target_pos - jump_pos, 4)
    IN  [g EXCEPT !.code = [i \in 1..Len(@) |->
            IF i > jump_pos /\ i <= jump_pos + 4 THEN bytes[i - jump_pos] ELSE @[i]]]

\* code[jump_pos .. jump_pos + 4] = (target_pos - jump_pos - 4).to_le_bytes()
patch_jump(g, jump_pos, target_pos) ==
    LET bytes == LeBytes(target_pos - jump_pos - 4, 4)
    IN  [g EXCEPT !.code = [i \in 1..Len(@) |->
            IF i > jump_pos /\ i <= jump_pos + 4 THEN bytes[i - jump_pos] ELSE @[i]]]

\* a new slot at every write, also of a name that has one
allocate_variable_fresh(g, name) ==
    [g |-> [g EXCEPT !.stack_offset = @ - 8,
                     !.variables = EnvSet(@, name, g.stack_offset - 8)],
     offset |-> g.stack_offset - 8]

\* X86CodeGenerator::allocate_variable
allocate_variable(g, name) ==
    IF name \in DOMAIN g.variables
    THEN [g |-> g, offset |-> g.variables[name]]
    ELSE [g |-> [g EXCEPT !.stack_offset = @ - 8,
                          !.variables = EnvSet(@, name, g.stack_offset - 8)],
          offset |-> g.stack_offset - 8]

GenOk(g) == [ok |-> TRUE, g |-> g, err |-> ""]

GenErr(g, msg) == [ok |-> FALSE, g |-> g, err |-> msg]

\* the `match op` of Expr::Binary in compile_expr
EmitOp(g, op) ==
    CASE op = "Add" -> GenOk(emit_add_rax_rcx(g))
      [] op = "Sub" -> GenOk(emit_sub_rax_rcx(g))
      [] op = "Mul" -> GenOk(emit_mul_rax_rcx(g))
      [] op = "Div" -> GenOk(emit_div_rax_rcx(g))
      [] op = "Equal" -> GenOk(emit_cmp_equal(g))
      [] op = "Less" -> GenOk(emit_cmp_less(g))
      [] op = "Greater" -> GenOk(emit_cmp_greater(g))
      [] OTHER -> GenErr(g, "Unsupported binary operation: " \o op)

\* X86CodeGenerator::compile_expr : an Err returns at once and leaves the
\* generator as it was at that point
RECURSIVE compile_expr(_, _)
compile_expr(expr, g) ==
    CASE expr.kind = "Number" -> GenOk(emit_mov_rax_imm(g, expr.n))
      [] expr.kind = "Variable" ->
            IF expr.name \in DOMAIN g.variables
            THEN GenOk(emit_mov_rax_stack(g, g.variables[expr.name]))
            ELSE GenErr(g, "Undefined variable: " \o expr.name)
      [] expr.kind = "Binary" ->
            LET r == compile_expr(expr.right, g)
            IN  IF ~r.ok THEN r
                ELSE LET l == compile_expr(expr.left, emit_push_rax(r.g))
                     IN  IF ~l.ok THEN l ELSE EmitOp(emit_pop_rcx(l.g), expr.op)
      [] expr.kind = "Assignment" ->
            LET v == compile_expr(expr.value, g)
            IN  IF ~v.ok THEN v
                ELSE LET a == allocate_variable(v.g, expr.name)
                     IN  GenOk(emit_mov_stack_rax(a.g, a.offset))
      [] expr.kind = "If" ->
            LET c == compile_expr(expr.condition, g)
            IN  IF ~c.ok THEN c
                ELSE LET jz == emit_jz_placeholder(emit_test_rax(c.g))
                         t == compile_expr(expr.true_expr, jz.g)
                     IN  IF ~t.ok THEN t
                         ELSE LET jmp == emit_jmp_placeholder(t.g)
                                  f == compile_expr(expr.false_expr,
                                          patch_jump(jmp.g, jz.pos, Len(jmp.g.code)))
                              IN  IF ~f.ok THEN f
                                  ELSE GenOk(patch_jump(f.g, jmp.pos, Len(f.g.code)))
      [] OTHER -> GenErr(g, "Unsupported expression type")

\* generate without `self.variables.clear()`: the layout of the previous
\* generation is still there
generate_stale(g, expr) ==
    LET cleared == [g EXCEPT !.code = <<>>, !.stack_offset = 0]
        c == compile_expr(expr, emit_prologue(cleared))
    IN  IF ~c.ok
        THEN [ok |-> FALSE, func |-> <<>>, g |-> c.g, err |-> c.err]
        ELSE LET done == emit_epilogue(c.g)
             IN  [ok |-> TRUE,
                  func |-> [code |-> done.code, entry_point |-> 0,
                            variables |-> done.variables],
                  g |-> done, err |-> ""]

\* X86CodeGenerator::generate : Ok(CompiledFunction) or Err, and the generator
\* state it leaves behind
generate(g, expr) ==
    LET cleared == [g EXCEPT !.code = <<>>, !.variables = EmptyEnv, !.stack_offset = 0]
        c == compile_expr(expr, emit_prologue(cleared))
    IN  IF ~c.ok
        THEN [ok |-> FALSE, func |-> <<>>, g |-> c.g, err |-> c.err]
        ELSE LET done == emit_epilogue(c.g)
             IN  [ok |-> TRUE,
                  func |-> [code |-> done.code, entry_point |-> 0,
                            variables |-> done.variables],
                  g |-> done, err |-> ""]

---------------------------------------------------------------------------
(* jit/mod.rs : JitCompiler *)

\* JitCompiler::new : hot_threshold
hot_threshold == 5

\* JitCompiler::new : max_cache_size (100 in the source, scaled down so that
\* a handful of expressions fills the cache)
max_cache_size == 2

\* execute : the cap on the reported time of a compiled execution
JitTimeCap == 10000

\* Option<T>
None == <<>>

Some(x) == <<x>>

\* ExecutableMemory::new : the bytes are copied into a Vec<u8> (code.to_vec())
ExecutableMemory_new(code) == [code |-> code, simulated |-> TRUE]

\* ExecutableMemory::execute : the bytes are not run, the dummy value is returned
ExecutableMemory_execute(m) == 42

\* ExecutableMemory::get_code
get_code(m) == m.code

\* the region holding m.code is the buffer of a Vec<u8>: ordinary heap
\* memory, which the owner may write
RegionWritable(m) == TRUE

\* nothing in the source maps or re-protects memory: the buffer of the Vec is
\* never executable
RegionExecutable(m) == FALSE

\* no ExecutableMemory value yet
NoMemory == [regions |-> <<>>, op |-> "none", region |-> 0, returned |-> None]

\* JitStats::default
DefaultStats ==
    [total_executions |-> 0, jit_compilations |-> 0,
     total_execution_time_ns |-> 0, total_compilation_time_ns |-> 0]

\* derive(Debug) of Expr, as format!("{:?}", expr) prints it
RECURSIVE DebugFmt(_)
RECURSIVE DebugArgs(_, _)
DebugArgs(args, i) ==
    IF i > Len(args) THEN ""
    ELSE (IF i > 1 THEN ", " ELSE "") \o DebugFmt(args[i]) \o DebugArgs(args, i + 1)

DebugFmt(expr) ==
    CASE expr.kind = "Number" -> "Number(" \o ToString(expr.n) \o ")"
      [] expr.kind = "Variable" -> "Variable(\"" \o expr.name \o "\")"
      [] expr.kind = "Binary" ->
            "Binary { left: " \o DebugFmt(expr.left) \o ", op: " \o expr.op
                \o ", right: " \o DebugFmt(expr.right) \o " }"
      [] expr.kind = "Assignment" ->
            "Assignment { name: \"" \o expr.name \o "\", value: "
                \o DebugFmt(expr.value) \o " }"
      [] expr.kind = "FunctionCall" ->
            "FunctionCall { name: \"" \o expr.name \o "\", args: ["
                \o DebugArgs(expr.args, 1) \o "] }"
      [] expr.kind = "If" ->
            "If { condition: " \o DebugFmt(expr.condition)
                \o ", true_expr: " \o DebugFmt(expr.true_expr)
                \o ", false_expr: " \o DebugFmt(expr.false_expr) \o " }"

\* DefaultHasher::new() is SipHash-1-3 with keys (0, 0); str::hash feeds it the
\* bytes of the string and then 0xff.  The 64-bit results (in hexadecimal, and
\* their low byte as a number) are tabulated for the strings the model's
\* expressions print as.
SipHash13 == <<
    <<"Binary { left: Number(2), op: Add, right: Binary { left: Number(3), op: Mul, right: Number(4) } }",
      "95689e1a1252fbea", 234>>,
    <<"Binary { left: Number(5), op: Mod, right: Number(3) }",
      "626055b63b95f3ac", 172>>,
    <<"FunctionCall { name: \"fib\", args: [Number(6)] }",
      "a1f1f04680163c2f", 47>>,
    <<"Binary { left: FunctionCall { name: \"fib\", args: [Number(6)] }, op: Add, right: Number(1) }",
      "c8e6b9424f297c3f", 63>>,
    <<"Assignment { name: \"x\", value: Number(10) }",
      "0915968ecdac1dbc", 188>>,
    <<"Binary { left: Variable(\"x\"), op: Add, right: Assignment { name: \"x\", value: Number(5) } }",
      "3a41399a9ae1a11e", 30>>,
    <<"Binary { left: Binary { left: Variable(\"x\"), op: Mul, right: Number(3) }, op: Add, right: Number(7) }",
      "cf429137889891ed", 237>>,
    <<"Binary { left: Number(1), op: Div, right: Number(0) }",
      "7279400abc610224", 36>>,
    <<"Binary { left: Number(1), op: Add, right: Number(1) }",
      "58fb9eaa639b5785", 133>>,
    <<"Binary { left: Number(2), op: Add, right: Number(2) }",
      "1480a36f8d683863", 99>>,
    <<"Binary { left: Number(3), op: Add, right: Number(3) }",
      "d658d4fe7ff028c8", 200>>,
    <<"If { condition: Binary { left: Variable(\"x\"), op: Greater, right: Number(40) }, true_expr: Binary { left: Variable(\"x\"), op: Mul, right: Number(2) }, false_expr: Binary { left: Variable(\"x\"), op: Div, right: Number(2) } }",
      "c95c353b9ec4ca21", 33>>,
    <<"Number(0)",
      "fa0704692d0b8c56", 86>>,
    <<"Number(1)",
      "36c256790d5cf273", 115>>,
    <<"Number(2)",
      "6daeb299fbed8625", 37>>,
    <<"Number(3)",
      "9b11f51f51661a19", 25>>,
    <<"Number(4)",
      "7aa1fe3f50911878", 120>>,
    <<"Number(5)",
      "dfc24e03facc9123", 35>>,
    <<"Number(6)",
      "85b4927faac42827", 39>>,
    <<"Number(7)",
      "bdf1c5e52215626a", 106>>,
    <<"Number(22)",
      "de328802dc91d26f", 111>>,
    <<"Binary { left: Assignment { name: \"x\", value: Number(5) }, op: Div, right: Number(0) }",
      "47a97f0cda1e0188", 136>>,
    <<"Binary { left: Assignment { name: \"y\", value: Variable(\"x\") }, op: Add, right: Variable(\"u\") }",
      "d286d8a3227f4cec", 236>> >>

\* expr_str.hash(&mut hasher); hasher.finish()
DefaultHasher(str) ==
    SipHash13[CHOOSE i \in 1..Len(SipHash13) : SipHash13[i][1] = str][2]

\* JitCompiler::hash_expr
hash_expr(expr) == DefaultHasher(DebugFmt(expr))

\* bits of the fingerprint kept where false merges are studied (64 in the
\* source, where no two texts at hand collide)
HashBits == 4

\* hasher.finish() cut to its HashBits low bits (taken from the low byte, the
\* third column of SipHash13)
DefaultHasherLow(str) ==
    SipHash13[CHOOSE i \in 1..Len(SipHash13) : SipHash13[i][1] = str][3] % (2 ^ HashBits)

\* JitCompiler::hash_expr on HashBits bits
hash_expr_low(expr) == "low:" \o ToString(DefaultHasherLow(DebugFmt(expr)))

\* a predicate that lets function calls through
is_jit_compilable_all(expr) == TRUE

\* JitCompiler::is_jit_compilable
RECURSIVE is_jit_compilable(_)
is_jit_compilable(expr) ==
    CASE expr.kind = "Number" -> TRUE
      [] expr.kind = "Variable" -> TRUE
      [] expr.kind = "Binary" ->
            is_jit_compilable(expr.left) /\ is_jit_compilable(expr.right)
      [] expr.kind = "Assignment" -> is_jit_compilable(expr.value)
      [] expr.kind = "If" ->
            /\ is_jit_compilable(expr.condition)
            /\ is_jit_compilable(expr.true_expr)
            /\ is_jit_compilable(expr.false_expr)
      [] expr.kind = "FunctionCall" -> FALSE

\* a removal that leaves the entry in place
Remove_keeps(cache, key) == cache

\* HashMap::remove
Remove(cache, key) == [k \in (DOMAIN cache) \ {key} |-> cache[k]]

\* HashMap::insert
Insert(cache, key, entry) ==
    [k \in (DOMAIN cache) \cup {key} |-> IF k = key THEN entry ELSE cache[k]]

\* `>` for `>=`
CacheFull_gt(cache) == Cardinality(DOMAIN cache) > max_cache_size

\* execute, `self.jit_cache.len() >= self.max_cache_size`
CacheFull(cache) == Cardinality(DOMAIN cache) >= max_cache_size

\* max_by_key for min_by_key
MaxByCount(cache) ==
    {h \in DOMAIN cache :
        \A k \in DOMAIN cache : cache[h].execution_count >= cache[k].execution_count}

\* execute, iter().min_by_key(|(_, entry)| entry.execution_count): the first
\* minimum in the HashMap's iteration order, which is unspecified, so any entry
\* with the minimum count
MinByCount(cache) ==
    {h \in DOMAIN cache :
        \A k \in DOMAIN cache : cache[h].execution_count <= cache[k].execution_count}

\* the keys execute may remove before it inserts expr_hash (None: no removal)
Victims(cache, expr_hash) ==
    IF expr_hash \notin DOMAIN cache /\ CacheFull(cache) /\ DOMAIN cache # {}
    THEN {Some(h) : h \in MinByCount(cache)}
    ELSE {None}

\* `>` for `>=`
IsHot_gt(count) == count > hot_threshold

\* an entry taken for hot one execution early
IsHot_early(count) == count + 1 >= hot_threshold

\* execute, `execution_count >= hot_threshold`
IsHot(count) == count >= hot_threshold

\* should_jit without the `compiled_function.is_none()` test
RecordExecution_recompile(cache, expr_hash, is_compilable, victim) ==
    IF expr_hash \in DOMAIN cache
    THEN LET entry == [cache[expr_hash] EXCEPT !.execution_count = @ + 1]
         IN  [cache |-> Insert(cache, expr_hash, entry),
              should_jit |-> is_compilable /\ IsHot(entry.execution_count)]
    ELSE LET kept == IF victim = None THEN cache ELSE Remove(cache, victim[1])
         IN  [cache |-> Insert(kept, expr_hash,
                            [expr_hash |-> expr_hash, execution_count |-> 1,
                             compiled_function |-> None]),
              should_jit |-> FALSE]

\* a hit counted twice
RecordExecution_double(cache, expr_hash, is_compilable, victim) ==
    IF expr_hash \in DOMAIN cache
    THEN LET entry == [cache[expr_hash] EXCEPT !.execution_count = @ + 2]
         IN  [cache |-> Insert(cache, expr_hash, entry),
              should_jit |-> /\ is_compilable
                             /\ IsHot(entry.execution_count)
                             /\ entry.compiled_function = None]
    ELSE LET kept == IF victim = None THEN cache ELSE Remove(cache, victim[1])
         IN  [cache |-> Insert(kept, expr_hash,
                            [expr_hash |-> expr_hash, execution_count |-> 1,
                             compiled_function |-> None]),
              should_jit |-> FALSE]

\* execute, first part: look the fingerprint up, count the execution or
\* (after an eviction when the cache is full) insert a new entry; should_jit
RecordExecution(cache, expr_hash, is_compilable, victim) ==
    IF expr_hash \in DOMAIN cache
    THEN LET entry == [cache[expr_hash] EXCEPT !.execution_count = @ + 1]
         IN  [cache |-> Insert(cache, expr_hash, entry),
              should_jit |-> /\ is_compilable
                             /\ IsHot(entry.execution_count)
                             /\ entry.compiled_function = None]
    ELSE LET kept == IF victim = None THEN cache ELSE Remove(cache, victim[1])
         IN  [cache |-> Insert(kept, expr_hash,
                            [expr_hash |-> expr_hash, execution_count |-> 1,
                             compiled_function |-> None]),
              should_jit |-> FALSE]

\* the statistics updated before the match on generate's result
JitCompile_counts(cache, st, g, expr, expr_hash, compilation_time) ==
    LET r == generate(g, expr)
    IN  [ok |-> r.ok, err |-> r.err, codegen |-> r.g,
         stats |-> [st EXCEPT !.jit_compilations = @ + 1,
                              !.total_compilation_time_ns = @ + compilation_time],
         cache |-> IF r.ok /\ expr_hash \in DOMAIN cache
                   THEN [cache EXCEPT ![expr_hash].compiled_function = Some(r.func)]
                   ELSE cache]

\* execute, `if should_jit { match self.codegen.generate(expr) ... }`
JitCompile(cache, st, g, expr, expr_hash, compilation_time) ==
    LET r == generate(g, expr)
    IN  IF r.ok
        THEN [ok |-> TRUE, err |-> "", codegen |-> r.g,
              stats |-> [st EXCEPT !.jit_compilations = @ + 1,
                                   !.total_compilation_time_ns = @ + compilation_time],
              cache |-> IF expr_hash \in DOMAIN cache
                        THEN [cache EXCEPT ![expr_hash].compiled_function = Some(r.func)]
                        ELSE cache]
        ELSE [ok |-> FALSE, err |-> r.err, codegen |-> r.g, stats |-> st, cache |-> cache]

\* the evaluation started from an empty environment
RunExpr_freshEnv(cache, e, expr, expr_hash, time) ==
    IF expr_hash \in DOMAIN cache /\ cache[expr_hash].compiled_function # None
    THEN LET r == evaluate_without_delay(expr, EmptyEnv, time)
         IN  IF r.result.ok
             THEN [r EXCEPT !.result.execution_time_ns = time,
                            !.result.was_jit_compiled = TRUE]
             ELSE r
    ELSE evaluate(expr, EmptyEnv, time)

\* the compiled path reported as interpreted
RunExpr_unreported(cache, e, expr, expr_hash, time) ==
    IF expr_hash \in DOMAIN cache /\ cache[expr_hash].compiled_function # None
    THEN LET r == evaluate_without_delay(expr, e, time)
         IN  IF r.result.ok
             THEN [r EXCEPT !.result.execution_time_ns = time]
             ELSE r
    ELSE evaluate(expr, e, time)

\* execute, the evaluation: through evaluate_without_delay when the entry holds
\* a compiled function (eval_time is measured around it), else through evaluate
RunExpr(cache, e, expr, expr_hash, time) ==
    IF expr_hash \in DOMAIN cache /\ cache[expr_hash].compiled_function # None
    THEN LET r == evaluate_without_delay(expr, e, time)
         IN  IF r.result.ok
             THEN [r EXCEPT !.result.execution_time_ns = time,
                            !.result.was_jit_compiled = TRUE]
             ELSE r
    ELSE evaluate(expr, e, time)

\* i64/u64 min
Min(a, b) == IF a <= b THEN a ELSE b

\* the cap applied before the totals are updated
Finish_capFirst(st, result) ==
    IF ~result.ok
    THEN [stats |-> st, result |-> result]
    ELSE LET capped == IF result.was_jit_compiled
                       THEN [result EXCEPT !.execution_time_ns = Min(@, JitTimeCap)]
                       ELSE result
         IN  [stats |-> [st EXCEPT !.total_executions = @ + 1,
                                   !.total_execution_time_ns = @ + capped.execution_time_ns],
              result |-> capped]

\* the totals updated before the `?` of the evaluation is applied
Finish_countsErrors(st, result) ==
    [stats |-> [st EXCEPT !.total_executions = @ + 1,
                          !.total_execution_time_ns = @ + result.execution_time_ns],
     result |-> IF result.ok /\ result.was_jit_compiled
                THEN [result EXCEPT !.execution_time_ns = Min(@, JitTimeCap)]
                ELSE result]

\* execute, after the evaluation: an Err has already returned through `?`;
\* otherwise the totals are updated and a compiled result's time is capped
Finish(st, result) ==
    IF ~result.ok
    THEN [stats |-> st, result |-> result]
    ELSE [stats |-> [st EXCEPT !.total_executions = @ + 1,
                               !.total_execution_time_ns = @ + result.execution_time_ns],
          result |-> IF result.was_jit_compiled
                     THEN [result EXCEPT !.execution_time_ns = Min(@, JitTimeCap)]
                     ELSE result]

---------------------------------------------------------------------------
(* lexer/mod.rs : a source text is the sequence of its characters *)

AsciiDigits == <<"0", "1", "2", "3", "4", "5", "6", "7", "8", "9">>

\* char::is_ascii_digit
is_ascii_digit(c) == \E i \in 1..Len(AsciiDigits) : AsciiDigits[i] = c

DigitValue(c) == (CHOOSE i \in 1..Len(AsciiDigits) : AsciiDigits[i] = c) - 1

\* char::is_ascii_alphabetic
is_ascii_alphabetic(c) ==
    c \in {"a", "b", "c", "d", "e", "f", "g", "h", "i", "j", "k", "l", "m",
           "n", "o", "p", "q", "r", "s", "t", "u", "v", "w", "x", "y", "z",
           "A", "B", "C", "D", "E", "F", "G", "H", "I", "J", "K", "L", "M",
           "N", "O", "P", "Q", "R", "S", "T", "U", "V", "W", "X", "Y", "Z"}

\* char::is_whitespace
is_whitespace(c) == c \in {" ", "\t", "\n", "\r"}

\* enum TokenType; n and name are the payloads of Number and Identifier
TokenType(kind) == [kind |-> kind, n |-> 0, name |-> ""]

TokenNumber(n) == [kind |-> "Number", n |-> n, name |-> ""]

TokenIdentifier(name) == [kind |-> "Identifier", n |-> 0, name |-> name]

\* struct Token
Token(token_type, lexeme, position) ==
    [token_type |-> token_type, lexeme |-> lexeme, position |-> position]

\* Lexer::new
NewLexer(input) == [input |-> input, current |-> 0, position |-> 0]

\* Lexer::is_at_end
Lexer_is_at_end(lx) == lx.current >= Len(lx.input)

\* Lexer::peek (called only when not at the end)
Lexer_peek(lx) == lx.input[lx.current + 1]

\* Lexer::advance, the state after it (the character returned is Lexer_peek)
Lexer_advance(lx) == [lx EXCEPT !.current = @ + 1, !.position = @ + 1]

\* Lexer::match_char
match_char(lx, expected) ==
    IF Lexer_is_at_end(lx) \/ Lexer_peek(lx) # expected
    THEN [matched |-> FALSE, lx |-> lx]
    ELSE [matched |-> TRUE, lx |-> Lexer_advance(lx)]

\* Lexer::skip_whitespace
RECURSIVE skip_whitespace(_)
skip_whitespace(lx) ==
    IF ~Lexer_is_at_end(lx) /\ is_whitespace(Lexer_peek(lx))
    THEN skip_whitespace(Lexer_advance(lx))
    ELSE lx

\* str::parse::<i64> of a digit string (the literals submitted fit an i64)
RECURSIVE ParseI64(_, _)
ParseI64(digits, acc) ==
    IF digits = <<>> THEN acc
    ELSE ParseI64(Tail(digits), acc * 10 + DigitValue(Head(digits)))

\* Lexer::read_number, after first_digit was consumed
RECURSIVE read_number_loop(_, _)
read_number_loop(lx, number_str) ==
    IF ~Lexer_is_at_end(lx) /\ is_ascii_digit(Lexer_peek(lx))
    THEN read_number_loop(Lexer_advance(lx), Append(number_str, Lexer_peek(lx)))
    ELSE [number |-> ParseI64(number_str, 0), lx |-> lx]

read_number(lx, first_digit) == read_number_loop(lx, <<first_digit>>)

\* Lexer::read_identifier, after first_char was consumed
RECURSIVE read_identifier(_, _)
read_identifier(lx, identifier) ==
    IF /\ ~Lexer_is_at_end(lx)
       /\ \/ is_ascii_alphabetic(Lexer_peek(lx))
          \/ is_ascii_digit(Lexer_peek(lx))
          \/ Lexer_peek(lx) = "_"
    THEN read_identifier(Lexer_advance(lx), identifier \o Lexer_peek(lx))
    ELSE [identifier |-> identifier, lx |-> lx]

\* the characters input[from+1 .. to] as a String
RECURSIVE Lexeme(_, _, _)
Lexeme(input, from, to) ==
    IF from >= to THEN "" ELSE input[from + 1] \o Lexeme(input, from + 1, to)

LexOk(lx0, start_pos, token_type, lx) ==
    [panic |-> FALSE, msg |-> "",
     token |-> Token(token_type, Lexeme(lx0.input, start_pos, lx.position), start_pos),
     lx |-> lx]

LexPanic(lx, msg) ==
    [panic |-> TRUE, msg |-> msg, token |-> Token(TokenType("EOF"), "", lx.position),
     lx |-> lx]

\* `=`, `<`, `>` followed or not by `=`
TwoCharToken(lx0, start_pos, lx, two, one) ==
    LET m == match_char(lx, "=")
    IN  LexOk(lx0, start_pos, TokenType(IF m.matched THEN two ELSE one), m.lx)

\* Lexer::next_token : a token, or the panic of an unexpected character
next_token(lx0) ==
    LET ws == skip_whitespace(lx0)
    IN  IF Lexer_is_at_end(ws)
        THEN [panic |-> FALSE, msg |-> "",
              token |-> Token(TokenType("EOF"), "", ws.position), lx |-> ws]
        ELSE LET start_pos == ws.position
                 c == Lexer_peek(ws)
                 lx == Lexer_advance(ws)
             IN  CASE c = "+" -> LexOk(lx0, start_pos, TokenType("Plus"), lx)
                   [] c = "-" -> LexOk(lx0, start_pos, TokenType("Minus"), lx)
                   [] c = "*" -> LexOk(lx0, start_pos, TokenType("Star"), lx)
                   [] c = "/" -> LexOk(lx0, start_pos, TokenType("Slash"), lx)
                   [] c = "%" -> LexOk(lx0, start_pos, TokenType("Percent"), lx)
                   [] c = "(" -> LexOk(lx0, start_pos, TokenType("LeftParen"), lx)
                   [] c = ")" -> LexOk(lx0, start_pos, TokenType("RightParen"), lx)
                   [] c = "," -> LexOk(lx0, start_pos, TokenType("Comma"), lx)
                   [] c = ";" -> LexOk(lx0, start_pos, TokenType("Semicolon"), lx)
                   [] c = "=" -> TwoCharToken(lx0, start_pos, lx, "EqualEqual", "Equal")
                   [] c = "!" ->
                        IF match_char(lx, "=").matched
                        THEN LexOk(lx0, start_pos, TokenType("NotEqual"),
                                   match_char(lx, "=").lx)
                        ELSE LexPanic(lx, "Unexpected character: !")
                   [] c = "<" -> TwoCharToken(lx0, start_pos, lx, "LessEqual", "Less")
                   [] c = ">" -> TwoCharToken(lx0, start_pos, lx, "GreaterEqual", "Greater")
                   [] is_ascii_digit(c) ->
                        LET r == read_number(lx, c)
                        IN  LexOk(lx0, start_pos, TokenNumber(r.number), r.lx)
                   [] is_ascii_alphabetic(c) \/ c = "_" ->
                        LET r == read_identifier(lx, c)
                        IN  LexOk(lx0, start_pos,
                                  IF r.identifier = "if" THEN TokenType("If")
                                  ELSE TokenIdentifier(r.identifier), r.lx)
                   [] OTHER -> LexPanic(lx, "Unexpected character: " \o c)

\* Lexer::tokenize : the tokens up to and including EOF, or the panic
RECURSIVE tokenize_loop(_, _)
tokenize_loop(r, tokens) ==
    IF r.panic THEN [panic |-> TRUE, msg |-> r.msg, tokens |-> tokens]
    ELSE IF r.token.token_type.kind = "EOF"
         THEN [panic |-> FALSE, msg |-> "", tokens |-> Append(tokens, r.token)]
         ELSE tokenize_loop(next_token(r.lx), Append(tokens, r.token))

tokenize(lx) == tokenize_loop(next_token(lx), <<>>)

---------------------------------------------------------------------------
(* parser/mod.rs : recursive descent over the tokens; p = {tokens, current} *)

\* Parser::new : tokenize the input (a lexer panic unwinds through it)
Parser_new(input) ==
    LET t == tokenize(NewLexer(input))
    IN  [panic |-> t.panic, msg |-> t.msg,
         parser |-> [tokens |-> t.tokens, current |-> 0]]

\* Parser::peek
Parser_peek(p) == p.tokens[p.current + 1]

\* Parser::is_at_end
Parser_is_at_end(p) == Parser_peek(p).token_type.kind = "EOF"

\* Parser::check : same discriminant as the token under the cursor
check(p, kind) == ~Parser_is_at_end(p) /\ Parser_peek(p).token_type.kind = kind

\* Parser::advance, the state after it
Parser_advance(p) == IF ~Parser_is_at_end(p) THEN [p EXCEPT !.current = @ + 1] ELSE p

\* Parser::previous
previous(p) == p.tokens[p.current]

\* Parser::previous_option : what advance returns
previous_option(p) == IF p.current > 0 THEN Some(previous(p)) ELSE None

\* Parser::match_token
match_token(p, kind) ==
    IF check(p, kind) THEN [matched |-> TRUE, p |-> Parser_advance(p)]
    ELSE [matched |-> FALSE, p |-> p]

\* Parser::match_tokens
match_tokens(p, kinds) ==
    IF \E i \in 1..Len(kinds) : check(p, kinds[i])
    THEN [matched |-> TRUE, p |-> Parser_advance(p)]
    ELSE [matched |-> FALSE, p |-> p]

ParseOk(expr, p) == [ok |-> TRUE, expr |-> expr, p |-> p, err |-> ""]

ParseErr(msg, p) == [ok |-> FALSE, expr |-> Number(0), p |-> p, err |-> msg]

\* the BinaryOp each operator token stands for
TokenOp(kind) ==
    CASE kind = "NotEqual" -> "NotEqual"
      [] kind = "EqualEqual" -> "Equal"
      [] kind = "Greater" -> "Greater"
      [] kind = "GreaterEqual" -> "GreaterEq"
      [] kind = "Less" -> "Less"
      [] kind = "LessEqual" -> "LessEq"
      [] kind = "Minus" -> "Sub"
      [] kind = "Plus" -> "Add"
      [] kind = "Slash" -> "Div"
      [] kind = "Star" -> "Mul"
      [] kind = "Percent" -> "Mod"

RECURSIVE expression(_)
RECURSIVE assignment(_)
RECURSIVE assignment_rest(_)
RECURSIVE assignment_value(_, _)
RECURSIVE equality(_)
RECURSIVE equality_loop(_)
RECURSIVE equality_right(_, _, _)
RECURSIVE comparison(_)
RECURSIVE comparison_loop(_)
RECURSIVE comparison_right(_, _, _)
RECURSIVE term(_)
RECURSIVE term_loop(_)
RECURSIVE term_right(_, _, _)
RECURSIVE factor(_)
RECURSIVE factor_loop(_)
RECURSIVE factor_right(_, _, _)
RECURSIVE unary(_)
RECURSIVE unary_negate(_)
RECURSIVE call(_)
RECURSIVE call_loop(_)
RECURSIVE call_args(_, _)
RECURSIVE primary(_)
RECURSIVE primary_paren(_)
RECURSIVE primary_if_condition(_)
RECURSIVE primary_if_true(_, _)
RECURSIVE primary_if_false(_, _, _)
RECURSIVE finish_call(_)
RECURSIVE finish_call_loop(_, _)
RECURSIVE finish_call_next(_, _)

\* Parser::finish_call : the arguments up to the closing parenthesis; the
\* result's expr field holds the argument list
finish_call_close(p, args) ==
    IF ~match_token(p, "RightParen").matched
    THEN ParseErr("Expect ')' after arguments", p)
    ELSE ParseOk(args, match_token(p, "RightParen").p)

finish_call_next(r, args) ==
    IF ~r.ok THEN r
    ELSE IF match_token(r.p, "Comma").matched
         THEN finish_call_loop(match_token(r.p, "Comma").p, Append(args, r.expr))
         ELSE finish_call_close(r.p, Append(args, r.expr))

finish_call_loop(p, args) == finish_call_next(expression(p), args)

finish_call(p) ==
    IF ~check(p, "RightParen") THEN finish_call_loop(p, <<>>)
    ELSE finish_call_close(p, <<>>)

\* Parser::primary, `if ( condition , true_expr , false_expr )`
primary_if_false(r, condition, true_expr) ==
    IF ~r.ok THEN r
    ELSE IF ~match_token(r.p, "RightParen").matched
         THEN ParseErr("Expect ')' after if expression", r.p)
         ELSE ParseOk(If(condition, true_expr, r.expr), match_token(r.p, "RightParen").p)

primary_if_true(r, condition) ==
    IF ~r.ok THEN r
    ELSE IF ~match_token(r.p, "Comma").matched
         THEN ParseErr("Expect ',' after true expression", r.p)
         ELSE primary_if_false(expression(match_token(r.p, "Comma").p), condition, r.expr)

primary_if_condition(r) ==
    IF ~r.ok THEN r
    ELSE IF ~match_token(r.p, "Comma").matched
         THEN ParseErr("Expect ',' after if condition", r.p)
         ELSE primary_if_true(expression(match_token(r.p, "Comma").p), r.expr)

\* Parser::primary, `( expression )`
primary_paren(r) ==
    IF ~r.ok THEN r
    ELSE IF ~match_token(r.p, "RightParen").matched
         THEN ParseErr("Expect ')' after expression", r.p)
         ELSE ParseOk(r.expr, match_token(r.p, "RightParen").p)

\* Parser::primary : advance returns the token now behind the cursor (at the
\* end of the input the cursor does not move and it is the last token again)
primary(p0) ==
    LET p == Parser_advance(p0)
    IN  IF previous_option(p) = None
        THEN ParseErr("Unexpected end of input", p)
        ELSE LET token_type == previous(p).token_type
             IN  CASE token_type.kind = "Number" -> ParseOk(Number(token_type.n), p)
                   [] token_type.kind = "Identifier" -> ParseOk(Variable(token_type.name), p)
                   [] token_type.kind = "LeftParen" -> primary_paren(expression(p))
                   [] token_type.kind = "If" ->
                        IF ~match_token(p, "LeftParen").matched
                        THEN ParseErr("Expect '(' after 'if'", p)
                        ELSE primary_if_condition(expression(match_token(p, "LeftParen").p))
                   [] OTHER -> ParseErr("Unexpected token: " \o token_type.kind, p)

\* Parser::call
call_args(r, name) ==
    IF ~r.ok THEN r ELSE call_loop(ParseOk(FunctionCall(name, r.expr), r.p))

call_loop(r) ==
    IF ~r.ok THEN r
    ELSE IF match_token(r.p, "LeftParen").matched
         THEN IF r.expr.kind = "Variable"
              THEN call_args(finish_call(match_token(r.p, "LeftParen").p), r.expr.name)
              ELSE ParseErr("Only identifiers can be called as functions",
                            match_token(r.p, "LeftParen").p)
         ELSE r

call(p) == call_loop(primary(p))

\* Parser::unary
unary_negate(r) ==
    IF ~r.ok THEN r ELSE ParseOk(Binary(Number(0), "Sub", r.expr), r.p)

unary(p) ==
    IF match_token(p, "Minus").matched
    THEN unary_negate(unary(match_token(p, "Minus").p))
    ELSE call(p)

\* Parser::factor
factor_right(r, left, op) ==
    IF ~r.ok THEN r ELSE factor_loop(ParseOk(Binary(left, op, r.expr), r.p))

factor_loop(r) ==
    IF ~r.ok THEN r
    ELSE IF match_tokens(r.p, <<"Slash", "Star", "Percent">>).matched
         THEN factor_right(unary(Parser_advance(r.p)), r.expr,
                           TokenOp(Parser_peek(r.p).token_type.kind))
         ELSE r

factor(p) == factor_loop(unary(p))

\* Parser::term
term_right(r, left, op) ==
    IF ~r.ok THEN r ELSE term_loop(ParseOk(Binary(left, op, r.expr), r.p))

term_loop(r) ==
    IF ~r.ok THEN r
    ELSE IF match_tokens(r.p, <<"Minus", "Plus">>).matched
         THEN term_right(factor(Parser_advance(r.p)), r.expr,
                         TokenOp(Parser_peek(r.p).token_type.kind))
         ELSE r

term(p) == term_loop(factor(p))

\* Parser::comparison
comparison_right(r, left, op) ==
    IF ~r.ok THEN r ELSE comparison_loop(ParseOk(Binary(left, op, r.expr), r.p))

comparison_loop(r) ==
    IF ~r.ok THEN r
    ELSE IF match_tokens(r.p, <<"Greater", "GreaterEqual", "Less", "LessEqual">>).matched
         THEN comparison_right(term(Parser_advance(r.p)), r.expr,
                               TokenOp(Parser_peek(r.p).token_type.kind))
         ELSE r

comparison(p) == comparison_loop(term(p))

\* Parser::equality
equality_right(r, left, op) ==
    IF ~r.ok THEN r ELSE equality_loop(ParseOk(Binary(left, op, r.expr), r.p))

equality_loop(r) ==
    IF ~r.ok THEN r
    ELSE IF match_tokens(r.p, <<"NotEqual", "EqualEqual">>).matched
         THEN equality_right(comparison(Parser_advance(r.p)), r.expr,
                             TokenOp(Parser_peek(r.p).token_type.kind))
         ELSE r

equality(p) == equality_loop(comparison(p))

\* Parser::logical_and, Parser::logical_or (no operator of their own)
logical_and(p) == equality(p)

logical_or(p) == logical_and(p)

\* Parser::assignment
assignment_value(r, name) ==
    IF ~r.ok THEN r ELSE ParseOk(Assignment(name, r.expr), r.p)

assignment_rest(r) ==
    IF ~r.ok THEN r
    ELSE IF match_token(r.p, "Equal").matched
         THEN IF r.expr.kind = "Variable"
              THEN assignment_value(assignment(match_token(r.p, "Equal").p), r.expr.name)
              ELSE ParseErr("Invalid assignment target", match_token(r.p, "Equal").p)
         ELSE r

assignment(p) == assignment_rest(logical_or(p))

\* Parser::expression
expression(p) == assignment(p)

\* Parser::parse
parse(p) == expression(p)

---------------------------------------------------------------------------
(* The expressions submitted and the measured times *)

\* "2 + 3 * 4"
E_arith == Binary(Number(2), "Add", Binary(Number(3), "Mul", Number(4)))

\* "5 % 3" : compilable, but the generator has no Mod
E_mod == Binary(Number(5), "Mod", Number(3))

\* "fib(6)"
E_fib == FunctionCall("fib", <<Number(6)>>)

\* "fib(6) + 1"
E_fibsum == Binary(E_fib, "Add", Number(1))

\* "x = 10"
E_assign == Assignment("x", Number(10))

\* "x + (x = 5)" : generated code writes x before it reads it
E_envdep == Binary(Variable("x"), "Add", Assignment("x", Number(5)))

\* "x * 3 + 7" : reads x from the environment
E_var == Binary(Binary(Variable("x"), "Mul", Number(3)), "Add", Number(7))

\* "1 / 0"
E_divzero == Binary(Number(1), "Div", Number(0))

\* "1 + 1"
E_one == Binary(Number(1), "Add", Number(1))

\* "2 + 2" and "5": the low 6 bits of their fingerprints are equal
E_two == Binary(Number(2), "Add", Number(2))

E_five == Number(5)

\* "22": the low 6 bits of its fingerprint are those of fib(6)
E_twentytwo == Number(22)

\* x = 5 and then a division by zero
E_partial == Binary(Assignment("x", Number(5)), "Div", Number(0))

\* y = x and then a read of u, which nothing assigns
E_partial2 == Binary(Assignment("y", Variable("x")), "Add", Variable("u"))

Exprs == {E_arith, E_mod, E_fib, E_fibsum, E_assign, E_envdep, E_var, E_divzero}

HotExprs == {E_arith, E_mod, E_one}

TimeExprs == {E_arith, E_divzero}

\* expressions of which some share a fingerprint of HashBits bits
MergeExprs == {E_two, E_five, E_twentytwo, E_fib, E_arith}

\* expressions that fail after an assignment, next to an assignment and a read
PartialExprs == {E_partial, E_partial2, E_assign, E_var}

AllExprs == Exprs \cup HotExprs \cup TimeExprs \cup MergeExprs \cup PartialExprs

Fingerprints == {hash_expr(e) : e \in AllExprs} \cup {hash_expr_low(e) : e \in MergeExprs}

\* the expressions handed to the generator directly: every operator over
\* small operands, conditionals and nested operations over reads and writes
\* of two names, and a sum of MaxNames assignments to different names
GenLeaves == {Number(1), Variable("x"), Assignment("x", Number(300))}

GenBinaries == {Binary(a, op, b) : a, b \in GenLeaves, op \in BinaryOp}

GenMid == {Number(1), Assignment("x", Number(1)), Assignment("y", Variable("x")),
           Binary(Variable("x"), "Add", Variable("y"))}

GenIfs == {If(c, t, f) : c, t, f \in GenMid}

GenNested == {Binary(If(Number(1), a, b), "Sub", Binary(a, "Mul", b)) : a, b \in GenMid}

\* names written by one expression in the longest sum of assignments
MaxNames == 17

RECURSIVE AssignChain(_)
AssignChain(n) ==
    IF n = 1 THEN Assignment("v1", Number(1))
    ELSE Binary(AssignChain(n - 1), "Add", Assignment("v" \o ToString(n), Number(n)))

\* conditionals whose condition and branches are conditionals
GenNestedIfs == {If(If(Number(1), a, b), If(a, b, Number(1)), If(b, a, a)) : a, b \in GenMid}

GenExprs == GenBinaries \cup GenIfs \cup GenNested \cup GenNestedIfs
                \cup {AssignChain(MaxNames), E_fib}

\* the expressions executed next to the direct generations
GenRunExprs == {E_assign, E_var}

\* executions per run in SpecGenRun
MaxGenSteps == 6

\* the conditionals handed to the interpreter directly: conditions that are
\* zero, non-zero, read or write x or fail, and branches that return, assign
\* or fail
EvalConds == {Number(0), Number(1), Number(-3), Variable("x"),
              Assignment("x", Number(0)), Assignment("x", Number(2)),
              Binary(Number(1), "Div", Number(0))}

EvalBranches == {Number(7), Assignment("y", Number(1)), Assignment("z", Variable("x")),
                 Binary(Number(1), "Div", Number(0)), FunctionCall("nope", <<>>)}

EvalIfs == {If(c, t, f) : c \in EvalConds, t, f \in EvalBranches}

\* the literals handed to the generator: every n with |n| <= LiteralSpan
\* (both sides of the bounds -128 and 127 of the short form) and some of
\* more than two and of four bytes
LiteralSpan == 130

Literals == ((0 - LiteralSpan)..LiteralSpan)
                \cup {-2147483647, -65536, -300, 300, 65536, 2147483647}

\* executions per run in SpecPartial
MaxPartialSteps == 6

\* elapsed times (ns) an Instant may measure, below and above JitTimeCap
Times == {3000, 12000}

\* elapsed time (ns) of a code generation
CompileTimes == {7000}

\* executions per run in Spec
MaxSteps == 6

\* executions per run in SpecHot
MaxHotSteps == 16

\* executions per run in SpecTime
MaxTimeSteps == 7

\* executions per run in SpecMerge
MaxMergeSteps == 7

\* the source texts posted to /api/execute: "2 + 3 * 4", "1 + 1", "5 % 3",
\* "1 @ 2" (a character the lexer does not know), "1 +" (no right operand)
S_arith == <<"2", " ", "+", " ", "3", " ", "*", " ", "4">>

S_one == <<"1", " ", "+", " ", "1">>

S_mod == <<"5", " ", "%", " ", "3">>

S_badchar == <<"1", " ", "@", " ", "2">>

S_incomplete == <<"1", " ", "+">>

Codes == {S_arith, S_one, S_mod, S_badchar, S_incomplete}

\* the routes of handle_connection
Requests == {"health", "stats", "cache", "execute", "reset"}

\* request threads alive at a time
MaxThreads == 2

Threads == 1..MaxThreads

\* connections accepted per run in SpecApi
MaxConnections == 4

\* connections accepted per run in SpecApiHot
MaxHotConnections == 7

\* handle_get_stats, handle_get_cache, handle_reset: Duration::from_secs(5),
\* scaled down to the number of clock ticks a waiting thread is followed over
handler_lock_timeout == 1

\* handle_execute: Duration::from_secs(10), scaled down likewise (still the
\* longer of the two)
execute_lock_timeout == 2

\* JitCompiler::execute_string, `Parser::new(code)?.parse()?`, for each source
\* text: the lexer's panic, the parser's error or the expression
ParsedCodes ==
    [code \in Codes |->
        LET n == Parser_new(code)
        IN  IF n.panic THEN [panic |-> TRUE, ok |-> FALSE, expr |-> Number(0), err |-> n.msg]
            ELSE LET r == parse(n.parser)
                 IN  [panic |-> FALSE, ok |-> r.ok, expr |-> r.expr, err |-> r.err]]

\* elapsed time (ns) of an execution requested through the API
ApiTimes == {3000}

---------------------------------------------------------------------------
(* api/mod.rs : the HTTP server, one thread per connection, the JitCompiler *)
(* behind Arc<Mutex<_>>                                                    *)

\* Mutex::try_lock by thread t: Ok(guard) when the mutex is free and not
\* poisoned; Err(WouldBlock) when it is held; Err(Poisoned(guard)) when a
\* holder panicked, and the guard inside the error is dropped at once
try_lock_unchecked(m, t) == [ok |-> TRUE, mutex |-> [m EXCEPT !.holder = Some(t)]]

try_lock(m, t) ==
    IF m.holder = None /\ ~m.poisoned
    THEN [ok |-> TRUE, mutex |-> [m EXCEPT !.holder = Some(t)]]
    ELSE [ok |-> FALSE, mutex |-> m]

\* drop of the MutexGuard: the mutex is released, and poisoned when the
\* holder is panicking
DropGuard(m, panicking) == [holder |-> None, poisoned |-> m.poisoned \/ panicking]

\* the timeout each handler passes to try_lock_with_timeout
LockTimeout(request) ==
    IF request = "execute" THEN execute_lock_timeout ELSE handler_lock_timeout

\* the clock stands still
Elapse_frozen(elapsed) == elapsed

\* try_lock_with_timeout: start.elapsed() after thread::sleep, in seconds
\* (the polls within one second change nothing the model keeps)
Elapse(elapsed) == elapsed + 1

\* try_lock_with_timeout, `start.elapsed() > timeout`
TimedOut(elapsed, timeout) == elapsed > timeout

\* create_http_response / create_error_response
HttpResponse(status_code, error, result) ==
    [status_code |-> status_code, error |-> error, result |-> result]

NoResponse == HttpResponse(0, "", None)

IdleThread == [pc |-> "idle", request |-> "", code |-> <<>>, elapsed |-> 0,
               response |-> NoResponse]

---------------------------------------------------------------------------
(* State machine *)

NoOp(op) ==
    [op |-> op, expr |-> Number(0), hash |-> "", time |-> 0, victim |-> None,
     victim_count |-> 0, len_before |-> 0, inserted |-> FALSE, had_artifact |-> FALSE, count |-> 0,
     should_jit |-> FALSE, gen_ok |-> FALSE, gen_err |-> "",
     result |-> ExecOutcome(EvalErr("", EmptyEnv), 0)]

\* JitCompiler::new
Init ==
    /\ jit_cache = [h \in {} |-> 0]
    /\ stats = DefaultStats
    /\ env = EmptyEnv
    /\ codegen = NewCodegen
    /\ last = NoOp("new")
    /\ calls = [e \in AllExprs |-> 0]
    /\ gens = [h \in Fingerprints |-> 0]
    /\ failed = {}
    /\ evictions = [h \in Fingerprints |-> 0]
    /\ steps = 0
    /\ mutex = [holder |-> None, poisoned |-> FALSE]
    /\ threads = [t \in Threads |-> IdleThread]
    /\ connections = 0
    /\ memory = NoMemory

\* JitCompiler::execute(expr); time and compilation_time are what the two
\* Instants measure.  Each intermediate value is bound once (\E over a
\* singleton) in the order the code computes it.
ExecuteHashed(expr, expr_hash, time, compilation_time) ==
    \E victim \in Victims(jit_cache, expr_hash) :
    \E rec \in {RecordExecution(jit_cache, expr_hash, is_jit_compilable(expr), victim)} :
    \E jc \in {IF rec.should_jit
                       THEN JitCompile(rec.cache, stats, codegen, expr, expr_hash,
                                       compilation_time)
                       ELSE [ok |-> FALSE, err |-> "", codegen |-> codegen,
                             stats |-> stats, cache |-> rec.cache]} :
    \E run \in {RunExpr(jc.cache, env, expr, expr_hash, time)} :
    \E fin \in {Finish(jc.stats, run.result)} :
                /\ jit_cache' = jc.cache
                /\ stats' = fin.stats
                /\ env' = run.env
                /\ codegen' = jc.codegen
                /\ last' = [op |-> "execute", expr |-> expr, hash |-> expr_hash,
                            time |-> time, victim |-> victim,
                            victim_count |-> IF victim = None THEN 0
                                             ELSE jit_cache[victim[1]].execution_count,
                            len_before |-> Cardinality(DOMAIN jit_cache),
                            inserted |-> expr_hash \notin DOMAIN jit_cache,
                            had_artifact |-> /\ expr_hash \in DOMAIN jit_cache
                                             /\ jit_cache[expr_hash].compiled_function # None,
                            count |-> jc.cache[expr_hash].execution_count,
                            should_jit |-> rec.should_jit,
                            gen_ok |-> jc.ok, gen_err |-> jc.err,
                            result |-> fin.result]
                /\ calls' = [calls EXCEPT ![expr] = @ + 1]
                /\ gens' = IF jc.ok THEN [gens EXCEPT ![expr_hash] = @ + 1] ELSE gens
                /\ failed' = ((failed \cap DOMAIN jc.cache)
                                \ (IF expr_hash \in DOMAIN jit_cache THEN {} ELSE {expr_hash}))
                             \cup (IF rec.should_jit /\ ~jc.ok THEN {expr_hash} ELSE {})
                /\ evictions' = IF victim = None THEN evictions
                                 ELSE [evictions EXCEPT ![victim[1]] = @ + 1]
                /\ steps' = steps + 1

\* JitCompiler::execute(expr) with the fingerprint hash_expr gives
Execute(expr, time, compilation_time) ==
    \E expr_hash \in {hash_expr(expr)} :
        ExecuteHashed(expr, expr_hash, time, compilation_time)

\* JitCompiler::execute(expr) with the fingerprint cut to HashBits bits
ExecuteLow(expr, time, compilation_time) ==
    \E expr_hash \in {hash_expr_low(expr)} :
        ExecuteHashed(expr, expr_hash, time, compilation_time)

\* reset_stats without interpreter.reset()
Reset_keepsEnv ==
    /\ jit_cache' = [h \in {} |-> 0]
    /\ stats' = DefaultStats
    /\ UNCHANGED env
    /\ UNCHANGED codegen
    /\ last' = NoOp("reset")
    /\ calls' = [e \in AllExprs |-> 0]
    /\ gens' = [h \in Fingerprints |-> 0]
    /\ failed' = {}
    /\ evictions' = [h \in Fingerprints |-> 0]
    /\ UNCHANGED steps

\* JitCompiler::reset_stats
Reset ==
    /\ jit_cache' = [h \in {} |-> 0]
    /\ stats' = DefaultStats
    /\ env' = EmptyEnv
    /\ UNCHANGED codegen
    /\ last' = NoOp("reset")
    /\ calls' = [e \in AllExprs |-> 0]
    /\ gens' = [h \in Fingerprints |-> 0]
    /\ failed' = {}
    /\ evictions' = [h \in Fingerprints |-> 0]
    /\ UNCHANGED steps

\* every kind of expression, a bounded number of executions
Next ==
    \/ \E expr \in Exprs, time \in {12000}, compilation_time \in CompileTimes :
            steps < MaxSteps /\ Execute(expr, time, compilation_time)
                             /\ UNCHANGED <<api_vars, mem_vars>>
    \/ steps > 0 /\ Reset /\ UNCHANGED <<api_vars, mem_vars>>

Spec == Init /\ [][Next]_vars

\* long runs of a few expressions, so that entries get hot, are evicted and
\* come back
NextHot ==
    \/ \E expr \in HotExprs :
            steps < MaxHotSteps /\ Execute(expr, 3000, 7000) /\ UNCHANGED <<api_vars, mem_vars>>
    \/ steps > 0 /\ Reset /\ UNCHANGED <<api_vars, mem_vars>>

SpecHot == Init /\ [][NextHot]_vars

\* both paths and the error path under every measured time
NextTime ==
    \/ \E expr \in TimeExprs, time \in Times, compilation_time \in CompileTimes :
            steps < MaxTimeSteps /\ Execute(expr, time, compilation_time)
                                 /\ UNCHANGED <<api_vars, mem_vars>>
    \/ steps > 0 /\ Reset /\ UNCHANGED <<api_vars, mem_vars>>

SpecTime == Init /\ [][NextTime]_vars

\* expressions with colliding fingerprints share an entry
NextMerge ==
    \/ \E expr \in MergeExprs :
            steps < MaxMergeSteps /\ ExecuteLow(expr, 3000, 7000) /\ UNCHANGED <<api_vars, mem_vars>>
    \/ steps > 0 /\ Reset /\ UNCHANGED <<api_vars, mem_vars>>

SpecMerge == Init /\ [][NextMerge]_vars

\* failures part-way through an evaluation, and what later executions see
NextPartial ==
    \E expr \in PartialExprs :
        steps < MaxPartialSteps /\ Execute(expr, 3000, 7000) /\ UNCHANGED <<api_vars, mem_vars>>

SpecPartial == Init /\ [][NextPartial]_vars

\* X86CodeGenerator::generate(expr), called on the generator as the tests of
\* codegen.rs call it; after Ok the generator holds the code and the layout of
\* the CompiledFunction returned
Generate(expr) ==
    \E r \in {generate(codegen, expr)} :
        /\ codegen' = r.g
        /\ last' = [NoOp("generate") EXCEPT !.expr = expr, !.gen_ok = r.ok,
                                            !.gen_err = r.err]
        /\ UNCHANGED <<jit_cache, stats, env, calls, gens, failed, evictions, steps>>

\* the generator alone, on every expression of GenExprs
NextGen ==
    \E expr \in GenExprs : Generate(expr) /\ UNCHANGED <<api_vars, mem_vars>>

SpecGen == Init /\ [][NextGen]_vars

\* the generator alone, on the literals
NextLit ==
    \E n \in Literals : Generate(Number(n)) /\ UNCHANGED <<api_vars, mem_vars>>

SpecLit == Init /\ [][NextLit]_vars

\* direct generations of the conditionals, next to runs that assign x and
\* read it
NextGenRun ==
    \/ \E expr \in GenIfs : Generate(expr) /\ UNCHANGED <<api_vars, mem_vars>>
    \/ \E expr \in GenRunExprs :
            steps < MaxGenSteps /\ Execute(expr, 3000, 7000)
                                /\ UNCHANGED <<api_vars, mem_vars>>

SpecGenRun == Init /\ [][NextGenRun]_vars

\* Interpreter::evaluate(expr), called on the interpreter as the tests of
\* interpreter/mod.rs call it
Evaluate(expr, time) ==
    \E r \in {evaluate(expr, env, time)} :
        /\ env' = r.env
        /\ last' = [NoOp("evaluate") EXCEPT !.expr = expr, !.time = time,
                                            !.result = r.result]
        /\ UNCHANGED <<jit_cache, stats, codegen, calls, gens, failed, evictions, steps>>

\* the interpreter alone, on every conditional of EvalIfs
NextEval ==
    \E expr \in EvalIfs : Evaluate(expr, 3000) /\ UNCHANGED <<api_vars, mem_vars>>

SpecEval == Init /\ [][NextEval]_vars

---------------------------------------------------------------------------
(* api/mod.rs : the request threads *)

\* handle_health routed through try_lock_with_timeout like the other handlers
Connect_healthLocks(t, request, code) ==
    /\ threads[t].pc = "idle"
    /\ connections < MaxConnections
    /\ connections' = connections + 1
    /\ threads' = [threads EXCEPT ![t] =
            [pc |-> "try_lock", request |-> request,
             code |-> IF request = "execute" THEN code ELSE <<>>,
             elapsed |-> 0, response |-> NoResponse]]
    /\ UNCHANGED mutex
    /\ UNCHANGED jit_vars
    /\ UNCHANGED mem_vars

\* start_server accepts a connection and spawns handle_connection, which
\* routes the request; handle_health answers without the lock
Connect(t, request, code) ==
    /\ threads[t].pc = "idle"
    /\ connections < MaxConnections
    /\ connections' = connections + 1
    /\ threads' = [threads EXCEPT ![t] =
            IF request = "health"
            THEN [pc |-> "done", request |-> request, code |-> <<>>, elapsed |-> 0,
                  response |-> HttpResponse(200, "", Some("healthy"))]
            ELSE [pc |-> "try_lock", request |-> request,
                  code |-> IF request = "execute" THEN code ELSE <<>>,
                  elapsed |-> 0, response |-> NoResponse]]
    /\ UNCHANGED mutex
    /\ UNCHANGED jit_vars
    /\ UNCHANGED mem_vars

\* try_lock_with_timeout, one turn of its loop: the guard, or 'Lock timeout'
\* (answered 503 by the handler), or a sleep
Poll(t) ==
    /\ threads[t].pc = "try_lock"
    /\ \E r \in {try_lock(mutex, t)} :
          IF r.ok
          THEN /\ mutex' = r.mutex
               /\ threads' = [threads EXCEPT ![t].pc = "guard"]
          ELSE /\ mutex' = r.mutex
               /\ IF TimedOut(threads[t].elapsed, LockTimeout(threads[t].request))
                  THEN threads' = [threads EXCEPT
                            ![t].pc = "done",
                            ![t].response = HttpResponse(503, "Lock timeout", None)]
                  ELSE threads' = [threads EXCEPT ![t].elapsed = Elapse(@)]
    /\ UNCHANGED connections
    /\ UNCHANGED jit_vars
    /\ UNCHANGED mem_vars

\* handle_get_stats / handle_get_cache with the guard: read only
HandleRead(t) ==
    /\ threads[t].pc = "guard"
    /\ threads[t].request \in {"stats", "cache"}
    /\ threads' = [threads EXCEPT
            ![t].pc = "respond",
            ![t].response = HttpResponse(200, "",
                IF threads[t].request = "stats"
                THEN Some([total_executions |-> stats.total_executions,
                           jit_compilations |-> stats.jit_compilations,
                           cache_entries |-> Cardinality(DOMAIN jit_cache)])
                ELSE Some([total_entries |-> Cardinality(DOMAIN jit_cache)]))]
    /\ UNCHANGED <<mutex, connections>>
    /\ UNCHANGED jit_vars
    /\ UNCHANGED mem_vars

\* handle_execute with the guard, Parser::new panics in the lexer: the thread
\* unwinds, the guard is dropped while panicking, no response is written
HandleExecutePanic(t) ==
    /\ threads[t].pc = "guard"
    /\ threads[t].request = "execute"
    /\ ParsedCodes[threads[t].code].panic
    /\ mutex' = DropGuard(mutex, TRUE)
    /\ threads' = [threads EXCEPT ![t].pc = "panicked"]
    /\ UNCHANGED connections
    /\ UNCHANGED jit_vars
    /\ UNCHANGED mem_vars

\* an execute_string that counts the execution before it parses the text
HandleExecuteParseError_counts(t) ==
    /\ threads[t].pc = "guard"
    /\ threads[t].request = "execute"
    /\ \E r \in {ParsedCodes[threads[t].code]} :
          /\ ~r.panic
          /\ ~r.ok
          /\ threads' = [threads EXCEPT
                  ![t].pc = "respond",
                  ![t].response = HttpResponse(400, "Execution failed: " \o r.err, None)]
    /\ stats' = [stats EXCEPT !.total_executions = @ + 1]
    /\ UNCHANGED <<mutex, connections>>
    /\ UNCHANGED <<jit_cache, env, codegen, last, calls, gens, failed, evictions, steps>>
    /\ UNCHANGED mem_vars

\* handle_execute with the guard, JitCompiler::execute_string returns a
\* parser error through `?`
HandleExecuteParseError(t) ==
    /\ threads[t].pc = "guard"
    /\ threads[t].request = "execute"
    /\ \E r \in {ParsedCodes[threads[t].code]} :
          /\ ~r.panic
          /\ ~r.ok
          /\ threads' = [threads EXCEPT
                  ![t].pc = "respond",
                  ![t].response = HttpResponse(400, "Execution failed: " \o r.err, None)]
    /\ UNCHANGED <<mutex, connections>>
    /\ UNCHANGED jit_vars
    /\ UNCHANGED mem_vars

\* handle_execute with the guard, JitCompiler::execute_string parses the code
\* and executes the expression
HandleExecute(t) ==
    /\ threads[t].pc = "guard"
    /\ threads[t].request = "execute"
    /\ \E r \in {ParsedCodes[threads[t].code]} :
          /\ ~r.panic
          /\ r.ok
          /\ \E time \in ApiTimes, compilation_time \in CompileTimes :
                Execute(r.expr, time, compilation_time)
    /\ threads' = [threads EXCEPT
            ![t].pc = "respond",
            ![t].response =
                IF last'.result.ok
                THEN HttpResponse(200, "",
                        Some([result |-> last'.result.value,
                              execution_time_ns |-> last'.result.execution_time_ns,
                              was_jit_compiled |-> last'.result.was_jit_compiled]))
                ELSE HttpResponse(400, "Execution failed: " \o last'.result.err, None)]
    /\ UNCHANGED <<mutex, connections>>
    /\ UNCHANGED mem_vars

\* handle_reset with the guard
HandleReset(t) ==
    /\ threads[t].pc = "guard"
    /\ threads[t].request = "reset"
    /\ Reset
    /\ threads' = [threads EXCEPT
            ![t].pc = "respond",
            ![t].response = HttpResponse(200, "", Some("success"))]
    /\ UNCHANGED <<mutex, connections>>
    /\ UNCHANGED mem_vars

\* the end of the handler's Ok arm: the guard is dropped
Release(t) ==
    /\ threads[t].pc = "respond"
    /\ mutex' = DropGuard(mutex, FALSE)
    /\ threads' = [threads EXCEPT ![t].pc = "done"]
    /\ UNCHANGED connections
    /\ UNCHANGED jit_vars
    /\ UNCHANGED mem_vars

\* handle_connection has written the response (or the thread has died of its
\* panic): the thread ends
Close(t) ==
    /\ threads[t].pc \in {"done", "panicked"}
    /\ threads' = [threads EXCEPT ![t] = IdleThread]
    /\ UNCHANGED <<mutex, connections>>
    /\ UNCHANGED jit_vars
    /\ UNCHANGED mem_vars

\* Connect for the runs in which one source text gets hot: the same routing,
\* more connections
ConnectHot(t, request, code) ==
    /\ threads[t].pc = "idle"
    /\ connections < MaxHotConnections
    /\ connections' = connections + 1
    /\ threads' = [threads EXCEPT ![t] =
            IF request = "health"
            THEN [pc |-> "done", request |-> request, code |-> <<>>, elapsed |-> 0,
                  response |-> HttpResponse(200, "", Some("healthy"))]
            ELSE [pc |-> "try_lock", request |-> request,
                  code |-> IF request = "execute" THEN code ELSE <<>>,
                  elapsed |-> 0, response |-> NoResponse]]
    /\ UNCHANGED mutex
    /\ UNCHANGED jit_vars
    /\ UNCHANGED mem_vars

NextApi ==
    \E t \in Threads :
        \/ \E request \in Requests, code \in Codes : Connect(t, request, code)
        \/ Poll(t)
        \/ HandleRead(t)
        \/ HandleExecutePanic(t)
        \/ HandleExecuteParseError(t)
        \/ HandleExecute(t)
        \/ HandleReset(t)
        \/ Release(t)
        \/ Close(t)

SpecApi == Init /\ [][NextApi]_vars

\* one source text posted until its entry is hot, next to reads of the
\* statistics
NextApiHot ==
    \E t \in Threads :
        \/ \E request \in {"execute", "stats"} : ConnectHot(t, request, S_arith)
        \/ Poll(t)
        \/ HandleRead(t)
        \/ HandleExecute(t)
        \/ Release(t)
        \/ Close(t)

SpecApiHot == Init /\ [][NextApiHot]_vars

\* each thread is scheduled again and again while it waits for the lock
SpecApiLive == SpecApi /\ \A t \in Threads : WF_vars(Poll(t))

---------------------------------------------------------------------------
(* jit/mod.rs : ExecutableMemory, as a caller of the public type uses it *)

\* the instruction bytes handed to ExecutableMemory::new: compiled functions
\* of the generator
MemCodes == {generate(NewCodegen, e).func.code : e \in {E_arith, E_one, E_assign}}

\* ExecutableMemory values alive at a time
MaxRegions == 3

\* calls of execute followed per value
MaxInvocations == 2

\* ExecutableMemory::new(code)
MemNew(code) ==
    /\ Len(memory.regions) < MaxRegions
    /\ memory' = [regions |-> Append(memory.regions,
                                    [mem |-> ExecutableMemory_new(code), invocations |-> 0]),
                  op |-> "new", region |-> Len(memory.regions) + 1, returned |-> None]
    /\ UNCHANGED <<jit_vars, api_vars>>

\* unsafe { memory.execute() } on the i-th value
MemExecute(i) ==
    /\ i \in DOMAIN memory.regions
    /\ memory.regions[i].invocations < MaxInvocations
    /\ memory' = [regions |-> [memory.regions EXCEPT ![i].invocations = @ + 1],
                  op |-> "execute", region |-> i,
                  returned |-> Some(ExecutableMemory_execute(memory.regions[i].mem))]
    /\ UNCHANGED <<jit_vars, api_vars>>

\* memory.get_code() on the i-th value
MemGetCode(i) ==
    /\ i \in DOMAIN memory.regions
    /\ memory' = [memory EXCEPT !.op = "get_code", !.region = i,
                                 !.returned = Some(get_code(memory.regions[i].mem))]
    /\ UNCHANGED <<jit_vars, api_vars>>

NextMem ==
    \/ \E code \in MemCodes : MemNew(code)
    \/ \E i \in 1..MaxRegions : MemExecute(i)
    \/ \E i \in 1..MaxRegions : MemGetCode(i)

SpecMem == Init /\ [][NextMem]_vars

---------------------------------------------------------------------------
(* Properties *)

LastExec == last.op = "execute"

Len_cache == Cardinality(DOMAIN jit_cache)

\* the expression contains a function call somewhere in its tree
RECURSIVE HasCall(_)
HasCall(expr) ==
    CASE expr.kind = "FunctionCall" -> TRUE
      [] expr.kind = "Binary" -> HasCall(expr.left) \/ HasCall(expr.right)
      [] expr.kind = "Assignment" -> HasCall(expr.value)
      [] expr.kind = "If" ->
            HasCall(expr.condition) \/ HasCall(expr.true_expr) \/ HasCall(expr.false_expr)
      [] OTHER -> FALSE

\* C1 as stated: since new(), none of the first four execute(e) calls invokes
\* the code generator, and the fifth execute(e) call invokes it when e is
\* compilable.
C1_Original ==
    LastExec =>
        /\ (calls[last.expr] < hot_threshold => ~last.should_jit)
        /\ ((calls[last.expr] = hot_threshold /\ is_jit_compilable(last.expr))
              => last.should_jit)

\* C1 amended: none of the first four execute(e) calls invokes the code
\* generator; the fifth invokes it when e is compilable and e's entry has not
\* been evicted since e's first call (its execution_count is then 5 too).
C1_Threshold ==
    LastExec =>
        /\ (calls[last.expr] < hot_threshold => ~last.should_jit)
        /\ (( /\ calls[last.expr] = hot_threshold
              /\ last.count = calls[last.expr]
              /\ is_jit_compilable(last.expr) )
              => last.should_jit)

\* the fifth execute of a compilable expression, never evicted, has just
\* invoked the generator
C1_Witness ==
    /\ LastExec
    /\ calls[last.expr] = hot_threshold
    /\ last.count = hot_threshold
    /\ last.should_jit

\* C2: whenever execute returns a value while the entry holds a compiled
\* function, that value is the one Interpreter::evaluate returns for the same
\* expression in the environment the call started from.
C2_CompiledEqualsInterpreted ==
    [][(/\ last'.op = "execute"
        /\ last'.result.ok
        /\ jit_cache'[last'.hash].compiled_function # None)
        => LET i == evaluate(last'.expr, env, last'.time).result
           IN  i.ok /\ last'.result.value = i.value]_vars

\* an expression whose value depends on the environment has run compiled
C2_Witness ==
    /\ LastExec
    /\ last.expr = E_envdep
    /\ last.result.ok
    /\ last.result.was_jit_compiled
    /\ jit_cache[last.hash].compiled_function # None

\* C3: once an entry holds a compiled function, an execute of its fingerprint
\* does not invoke the code generator, and no step changes the compiled
\* function while the entry stays in the cache.
C3_ArtifactStable ==
    [][\A h \in DOMAIN jit_cache :
          jit_cache[h].compiled_function # None =>
              /\ ((last'.op = "execute" /\ last'.hash = h) => ~last'.should_jit)
              /\ (h \in DOMAIN jit_cache' =>
                    jit_cache'[h].compiled_function = jit_cache[h].compiled_function)]_vars

\* an execute of a fingerprint whose entry already held a compiled function
C3_Witness == LastExec /\ last.had_artifact /\ last.result.ok

\* C4 as stated: after generate has failed for a fingerprint, no later execute
\* of that fingerprint invokes the code generator, and its executions are
\* interpreted.
C4_NeverRetried ==
    [][\A h \in failed :
          (last'.op = "execute" /\ last'.hash = h) =>
              /\ ~last'.should_jit
              /\ ~last'.result.was_jit_compiled]_vars

\* C5 as stated: without a reset, code generation succeeds at most once per
\* fingerprint, evictions and re-insertions included.
C5_Original == \A h \in Fingerprints : gens[h] <= 1

\* C5 amended: code generation succeeds at most once per fingerprint for each
\* stay of its entry in the cache; a fingerprint is generated again only after
\* its entry was evicted and inserted anew.
C5_OncePerResidency ==
    \A h \in Fingerprints :
        gens[h] <= evictions[h] + (IF h \in DOMAIN jit_cache THEN 1 ELSE 0)

\* a fingerprint compiled, evicted, inserted again and compiled again
C5_Witness ==
    \E h \in DOMAIN jit_cache :
        gens[h] = 2 /\ evictions[h] >= 1 /\ jit_cache[h].compiled_function # None

\* C6: the cache never holds more than max_cache_size entries, and an execute
\* that inserts a new fingerprint into a full cache leaves exactly
\* max_cache_size entries.
C6_CacheBound ==
    /\ Len_cache <= max_cache_size
    /\ ((LastExec /\ last.inserted /\ last.len_before >= max_cache_size)
          => Len_cache = max_cache_size)

\* a new fingerprint has just been inserted into a full cache
C6_Witness ==
    /\ LastExec
    /\ last.inserted
    /\ last.len_before = max_cache_size
    /\ last.hash \in DOMAIN jit_cache

\* C7: an evicted entry has, at that moment, an execution_count no greater
\* than any other entry's, and an execute removes an entry only when it
\* inserts a fingerprint not yet present into a full cache (and then only the
\* evicted one).
C7_EvictsMinimum ==
    [][last'.op = "execute" =>
          /\ (last'.victim # None =>
                /\ last'.victim[1] \in DOMAIN jit_cache
                /\ last'.victim[1] \notin DOMAIN jit_cache'
                /\ \A k \in DOMAIN jit_cache :
                      jit_cache[last'.victim[1]].execution_count
                          <= jit_cache[k].execution_count)
          /\ \A h \in (DOMAIN jit_cache) \ (DOMAIN jit_cache') :
                /\ last'.victim = Some(h)
                /\ last'.hash \notin DOMAIN jit_cache
                /\ Cardinality(DOMAIN jit_cache) >= max_cache_size]_vars

\* an eviction that had to choose: a surviving entry has a larger count
C7_Witness ==
    /\ LastExec
    /\ last.victim # None
    /\ last.victim[1] \notin DOMAIN jit_cache
    /\ \E k \in DOMAIN jit_cache :
          k # last.hash /\ jit_cache[k].execution_count > last.victim_count

\* C8: an expression with a function call in its tree never has a compiled
\* function in its entry; each execute of it leaves the code generator alone,
\* is interpreted and reports was_jit_compiled = false; fib(6) returns 8.
C8_CallsStayInterpreted ==
    /\ \A e \in AllExprs :
          ((HasCall(e) /\ hash_expr(e) \in DOMAIN jit_cache)
              => jit_cache[hash_expr(e)].compiled_function = None)
    /\ ((LastExec /\ HasCall(last.expr)) =>
          /\ ~last.should_jit
          /\ ~last.result.was_jit_compiled
          /\ (last.expr = E_fib => (last.result.ok /\ last.result.value = 8)))

\* fib(6) executed for at least the hot_threshold-th time
C8_Witness ==
    /\ LastExec
    /\ last.expr = E_fib
    /\ last.count >= hot_threshold
    /\ last.result.value = 8

\* C9: when generate returns Err, the same execute returns exactly what
\* Interpreter::evaluate returns for the expression (a value or the
\* interpreter's error), with was_jit_compiled = false, and jit_compilations
\* is unchanged.
C9_GenerationFailureAbsorbed ==
    [][(last'.op = "execute" /\ last'.should_jit /\ ~last'.gen_ok) =>
          /\ last'.result = evaluate(last'.expr, env, last'.time).result
          /\ ~last'.result.was_jit_compiled
          /\ stats'.jit_compilations = stats.jit_compilations]_vars

\* generate has just failed and the call returned the interpreter's value
C9_Witness ==
    /\ LastExec
    /\ last.should_jit
    /\ ~last.gen_ok
    /\ last.gen_err # ""
    /\ last.result.ok

InsideLock == {t \in Threads : threads[t].pc \in {"guard", "respond"}}

\* C11 as stated: for every source text execute_string ends by returning a
\* result or an error value; no request thread panics.
C11_NeverPanics == \A t \in Threads : threads[t].pc # "panicked"

\* C12: every call of try_lock_with_timeout ends, whatever the other threads
\* do, with the guard or with 'Lock timeout'; and 'Lock timeout' is returned
\* only once the elapsed time exceeds the timeout, and is answered 503.
C12_LockWaitTerminates ==
    /\ \A t \in Threads :
          (threads[t].pc = "try_lock") ~> (threads[t].pc # "try_lock")
    /\ [](\A t \in Threads :
            threads[t].response.error = "Lock timeout" =>
                /\ threads[t].response.status_code = 503
                /\ threads[t].elapsed > LockTimeout(threads[t].request))

\* one request was answered 'Lock timeout' after the other one had taken the
\* guard and kept it
C12_Witness ==
    \E t, u \in Threads :
        /\ threads[t].pc = "done"
        /\ threads[t].response.status_code = 503
        /\ threads[t].response.error = "Lock timeout"
        /\ threads[u].pc \in {"guard", "respond"}

\* C13 as stated: whenever no request holds the lock (the previous holder
\* has finished, normally or abnormally), a request that tries the lock
\* acquires it instead of waiting on or failing with 'Lock timeout'.
C13_BusyIsTransient ==
    [][\A t \in Threads :
          (/\ threads[t].pc = "try_lock"
           /\ threads'[t] # threads[t]
           /\ mutex.holder = None)
          => threads'[t].pc = "guard"]_vars

\* C14: at most one request thread at a time is inside the lock, and no
\* update is lost: the executes of an expression whose entry was never evicted
\* are all counted in its execution_count, and total_executions counts every
\* execute that returned a result.
C14_NoLostUpdate ==
    /\ Cardinality(InsideLock) <= 1
    /\ \A code \in Codes :
          LET r == ParsedCodes[code]
          IN  (r.ok /\ hash_expr(r.expr) \in DOMAIN jit_cache
                    /\ evictions[hash_expr(r.expr)] = 0)
                  => jit_cache[hash_expr(r.expr)].execution_count = calls[r.expr]
    /\ stats.total_executions
          = calls[E_arith] + calls[E_one] + calls[E_mod]

\* two execute requests of one source text were in flight together (the
\* second one had to wait for the lock) and both are counted
C14_Witness ==
    \E t, u \in Threads :
        /\ t # u
        /\ threads[t].request = "execute" /\ threads[u].request = "execute"
        /\ threads[t].code = S_arith /\ threads[u].code = S_arith
        /\ threads[t].pc = "done" /\ threads[t].response.status_code = 200
        /\ threads[u].pc = "respond" /\ threads[u].elapsed > 0
        /\ jit_cache[hash_expr(E_arith)].execution_count = 2
        /\ stats.total_executions = 2

\* C15: while a request is executing inside the lock, no step of another
\* thread evicts an entry or clears the cache: across every step that leaves
\* an execute request inside the lock where it was, the cache is unchanged.
C15_NoEvictionUnderExecution ==
    [][\A t \in Threads :
          (/\ threads[t].request = "execute"
           /\ threads[t].pc \in {"guard", "respond"}
           /\ threads'[t] = threads[t])
          => jit_cache' = jit_cache]_vars

\* an execute request has just evicted an entry while another execute request
\* was waiting for the lock
C15_Witness ==
    /\ LastExec
    /\ last.victim # None
    /\ \E t, u \in Threads :
          /\ threads[t].pc = "respond" /\ threads[t].request = "execute"
          /\ threads[u].pc = "try_lock" /\ threads[u].request = "execute"
          /\ threads[u].elapsed > 0

\* the names an expression assigns somewhere in its tree
RECURSIVE AssignedNames(_)
AssignedNames(expr) ==
    CASE expr.kind = "Assignment" -> {expr.name} \cup AssignedNames(expr.value)
      [] expr.kind = "Binary" -> AssignedNames(expr.left) \cup AssignedNames(expr.right)
      [] expr.kind = "If" ->
            AssignedNames(expr.condition) \cup AssignedNames(expr.true_expr)
                \cup AssignedNames(expr.false_expr)
      [] expr.kind = "FunctionCall" ->
            UNION {AssignedNames(expr.args[i]) : i \in 1..Len(expr.args)}
      [] OTHER -> {}

\* C16: a variable assigned by one execute keeps its value for every later
\* execute until it is reassigned or reset: an execute changes no variable
\* its expression does not assign, x = 10 leaves x bound to 10, and x * 3 + 7
\* returns 3 times the stored x plus 7 (37 after x = 10) on every submission,
\* below and at or above the hot threshold.
C16_AssignmentsPersist ==
    [][last'.op = "execute" =>
          /\ \A v \in DOMAIN env :
                v \notin AssignedNames(last'.expr) => (v \in DOMAIN env' /\ env'[v] = env[v])
          /\ (last'.expr = E_assign => (last'.result.ok /\ env'["x"] = 10))
          /\ ((last'.expr = E_var /\ "x" \in DOMAIN env) =>
                (last'.result.ok /\ last'.result.value = env["x"] * 3 + 7))]_vars

\* x * 3 + 7 has returned 37 at its hot_threshold-th submission after x = 10
C16_Witness ==
    /\ LastExec
    /\ last.expr = E_var
    /\ last.count >= hot_threshold
    /\ calls[E_assign] > 0
    /\ last.result.ok
    /\ last.result.value = 37

\* C17: a successful execute reports was_jit_compiled = true exactly when the
\* entry held a compiled function before the call or the call has installed
\* one, and an entry that held one still holds it after the call.
C17_PathReported ==
    [][(last'.op = "execute" /\ last'.result.ok) =>
          /\ last'.result.was_jit_compiled = (last'.had_artifact \/ last'.gen_ok)
          /\ (last'.had_artifact =>
                jit_cache'[last'.hash].compiled_function
                    = jit_cache[last'.hash].compiled_function)]_vars

\* the execute after the one that installed the compiled function reports the
\* compiled path
C17_Witness ==
    /\ LastExec
    /\ last.had_artifact
    /\ ~last.gen_ok
    /\ last.count = hot_threshold + 1
    /\ last.result.ok
    /\ last.result.was_jit_compiled

\* C18: reset_stats leaves the cache empty, every counter zero and the
\* environment empty, and the first execute after it creates an entry with
\* execution_count 1 and no compiled function, run interpreted.
C18_ResetClears ==
    [][/\ (last'.op = "reset" =>
              /\ DOMAIN jit_cache' = {}
              /\ stats' = DefaultStats
              /\ DOMAIN env' = {})
       /\ ((last.op = "reset" /\ last'.op = "execute") =>
              /\ jit_cache'[last'.hash].execution_count = 1
              /\ jit_cache'[last'.hash].compiled_function = None
              /\ ~last'.result.was_jit_compiled)]_vars

\* 2 + 3 * 4 was compiled, then the compiler was reset, and the expression
\* has been executed again as a new entry
C18_Witness ==
    /\ LastExec
    /\ last.expr = E_arith
    /\ steps = hot_threshold + 1
    /\ calls[E_arith] = 1
    /\ codegen = generate(NewCodegen, E_arith).g
    /\ last.count = 1
    /\ stats.total_executions = 1
    /\ stats.jit_compilations = 0

\* C19: the first execute of a fingerprint not in the cache creates its entry
\* with execution_count 1 and no compiled function; a later execute adds
\* exactly 1 to the count; an execute changes no other entry that stays in
\* the cache.
C19_CountsExact ==
    [][last'.op = "execute" =>
          /\ (last'.hash \notin DOMAIN jit_cache =>
                /\ jit_cache'[last'.hash].execution_count = 1
                /\ jit_cache'[last'.hash].compiled_function = None)
          /\ (last'.hash \in DOMAIN jit_cache =>
                jit_cache'[last'.hash].execution_count
                    = jit_cache[last'.hash].execution_count + 1)
          /\ \A k \in (DOMAIN jit_cache \cap DOMAIN jit_cache') \ {last'.hash} :
                jit_cache'[k] = jit_cache[k]]_vars

\* an entry has been counted up while another entry, holding a compiled
\* function, stayed as it was
C19_Witness ==
    /\ LastExec
    /\ ~last.inserted
    /\ last.count > 1
    /\ \E k \in DOMAIN jit_cache :
          /\ k # last.hash
          /\ jit_cache[k].compiled_function # None
          /\ jit_cache[k].execution_count >= hot_threshold

\* C20: when expressions with one fingerprint share an entry, every execute
\* still returns what the interpreter returns for the expression submitted,
\* in the environment the call started from; only the reported path follows
\* the shared entry.
C20_MergeKeepsResults ==
    [][last'.op = "execute" =>
          LET i == evaluate(last'.expr, env, last'.time).result
          IN  /\ last'.result.ok = i.ok
              /\ last'.result.value = i.value
              /\ last'.result.err = i.err
              /\ (last'.result.ok =>
                    last'.result.was_jit_compiled
                        = (jit_cache'[last'.hash].compiled_function # None))]_vars

\* fib(6), submitted for the first time, has run on the entry that 22 got
\* compiled, reported the compiled path and returned 8
C20_Witness ==
    /\ LastExec
    /\ last.expr = E_fib
    /\ calls[E_fib] = 1
    /\ last.hash = hash_expr_low(E_twentytwo)
    /\ hash_expr(E_fib) # hash_expr(E_twentytwo)
    /\ last.had_artifact
    /\ last.result.was_jit_compiled
    /\ last.result.value = 8

\* C21: execute returns an error exactly when the interpreter's evaluation of
\* the expression in the current environment fails (undefined variable,
\* division or modulo by zero, unknown function), with that error's message,
\* whether or not the entry holds a compiled function; an error leaves the
\* totals as they were.
C21_ErrorsKeptWhenCompiled ==
    [][last'.op = "execute" =>
          LET i == eval_expr(last'.expr, env)
          IN  /\ last'.result.ok = i.ok
              /\ (~i.ok =>
                    /\ last'.result.err = i.err
                    /\ stats'.total_executions = stats.total_executions)
              /\ (i.ok => last'.result.err = "")]_vars

\* 1 / 0 has been executed on an entry that already held a compiled function
\* and has returned 'Division by zero'
C21_Witness ==
    /\ LastExec
    /\ last.expr = E_divzero
    /\ last.had_artifact
    /\ jit_cache[last.hash].compiled_function # None
    /\ ~last.result.ok
    /\ last.result.err = "Division by zero"

\* C22: the memory holding an artifact's instruction bytes is never writable
\* and executable at once, and whenever the bytes are invoked the region is
\* executable and not writable.
C22_WriteXorExecute ==
    [][/\ \A i \in DOMAIN memory'.regions :
              ~(RegionWritable(memory'.regions[i].mem)
                    /\ RegionExecutable(memory'.regions[i].mem))
       /\ (memory'.op = "execute" =>
              /\ RegionExecutable(memory.regions[memory'.region].mem)
              /\ ~RegionWritable(memory.regions[memory'.region].mem))]_vars

\* C23: a health request is answered 200 'healthy' in the step that routes
\* it: its thread never waits for or holds the lock, whoever holds the lock
\* at that time, and the step changes neither the lock nor the cache, the
\* counters or the environment.
C23_HealthWithoutLock ==
    [][\A t \in Threads :
          /\ (threads'[t].request = "health" => threads'[t].pc = "done")
          /\ ((threads[t].pc = "idle" /\ threads'[t].request = "health") =>
                /\ threads'[t].response = HttpResponse(200, "", Some("healthy"))
                /\ mutex' = mutex
                /\ jit_cache' = jit_cache
                /\ stats' = stats
                /\ env' = env)]_vars

\* a health request has been answered while another thread holds the lock in
\* the middle of an execute request
C23_Witness ==
    \E t, u \in Threads :
        /\ t # u
        /\ threads[t].request = "health"
        /\ threads[t].pc = "done"
        /\ threads[t].response.status_code = 200
        /\ threads[u].request = "execute"
        /\ threads[u].pc = "guard"
        /\ mutex.holder = Some(u)

\* C24: code generation for a promoted expression runs while nobody holds the
\* lock: in the step in which the generator is invoked the mutex is free.
C24_CompileOutsideLock ==
    [][(steps' # steps /\ last'.should_jit) => mutex.holder = None]_vars

\* C25: the entry evicted is a function of the cache contents and of the
\* fingerprint inserted: whenever an execute evicts an entry, that entry is
\* the only one the cache and the fingerprint allow to be evicted.
C25_EvictionDeterministic ==
    [][(steps' # steps /\ last'.victim # None) =>
          Victims(jit_cache, last'.hash) = {last'.victim}]_vars

\* C26: an eviction removes the entry together with its compiled function;
\* the next execute of an evicted fingerprint creates a new entry with
\* execution_count 1 and no compiled function and runs interpreted without
\* invoking the generator; the generator is invoked for it again only at an
\* execution_count of at least hot_threshold, counted from that new entry.
C26_EvictionDestroysArtifact ==
    [][steps' # steps =>
          /\ (last'.victim # None => last'.victim[1] \notin DOMAIN jit_cache')
          /\ ((evictions[last'.hash] > 0 /\ last'.hash \notin DOMAIN jit_cache) =>
                /\ jit_cache'[last'.hash].execution_count = 1
                /\ jit_cache'[last'.hash].compiled_function = None
                /\ ~last'.should_jit
                /\ ~last'.result.was_jit_compiled)
          /\ ((evictions'[last'.hash] > 0 /\ last'.should_jit) =>
                /\ last'.hash \in DOMAIN jit_cache
                /\ jit_cache[last'.hash].compiled_function = None
                /\ jit_cache'[last'.hash].execution_count >= hot_threshold)]_vars

\* an expression was compiled, its entry was evicted with the compiled
\* function, and its next execute has created a new entry and run interpreted
C26_Witness ==
    /\ LastExec
    /\ last.inserted
    /\ evictions[last.hash] > 0
    /\ gens[last.hash] > 0
    /\ jit_cache[last.hash].execution_count = 1
    /\ jit_cache[last.hash].compiled_function = None
    /\ last.result.ok
    /\ ~last.result.was_jit_compiled

\* whether, in the order compile_expr visits the tree, some read of a name
\* comes before every write of that name; w: the names written so far
RECURSIVE ScanReads(_, _)
ScanReads(expr, w) ==
    CASE expr.kind = "Number" -> [bad |-> FALSE, w |-> w]
      [] expr.kind = "Variable" -> [bad |-> expr.name \notin w, w |-> w]
      [] expr.kind = "Binary" ->
            LET r == ScanReads(expr.right, w)
                l == ScanReads(expr.left, r.w)
            IN  [bad |-> r.bad \/ l.bad, w |-> l.w]
      [] expr.kind = "Assignment" ->
            LET v == ScanReads(expr.value, w)
            IN  [bad |-> v.bad, w |-> v.w \cup {expr.name}]
      [] expr.kind = "If" ->
            LET c == ScanReads(expr.condition, w)
                t == ScanReads(expr.true_expr, c.w)
                f == ScanReads(expr.false_expr, t.w)
            IN  [bad |-> c.bad \/ t.bad \/ f.bad, w |-> f.w]
      [] OTHER -> [bad |-> FALSE, w |-> w]

\* C27: generate returns an error for every expression that, in compilation
\* order, reads a name before any assignment of the same expression has
\* written it, whatever was generated before; and execute never installs a
\* compiled function for such an expression and runs it interpreted.
C27_UnwrittenReadFailsGeneration ==
    [][/\ ((last'.op = "generate" /\ last' # last /\ ScanReads(last'.expr, {}).bad) =>
              (~last'.gen_ok /\ last'.gen_err # ""))
       /\ ((steps' # steps /\ ScanReads(last'.expr, {}).bad) =>
              /\ ~last'.gen_ok
              /\ jit_cache'[last'.hash].compiled_function = None
              /\ ~last'.result.was_jit_compiled)]_vars

\* x * 3 + 7 has been executed after x = 10 with its entry hot: generate
\* has failed on the read of x and the expression has run interpreted
C27_Witness ==
    /\ LastExec
    /\ last.expr = E_var
    /\ last.count = hot_threshold
    /\ last.should_jit
    /\ last.gen_err = "Undefined variable: x"
    /\ jit_cache[last.hash].compiled_function = None
    /\ last.result.ok
    /\ last.result.value = 37
    /\ ~last.result.was_jit_compiled

\* C28: for each of the eleven binary operators, generate succeeds on a
\* binary node whose two operands each generate successfully.
C28_BinaryOpsGenerate ==
    [][(/\ last'.op = "generate"
        /\ last'.expr.kind = "Binary"
        /\ last'.expr.op \in BinaryOp
        /\ generate(NewCodegen, last'.expr.left).ok
        /\ generate(NewCodegen, last'.expr.right).ok) => last'.gen_ok]_vars

\* the signed value of the n little-endian bytes of code from index pc on
RECURSIVE SignedLe(_, _, _)
SignedLe(code, pc, n) ==
    IF n = 1 THEN (IF code[pc] >= 128 THEN code[pc] - 256 ELSE code[pc])
    ELSE code[pc] + 256 * SignedLe(code, pc + 1, n - 1)

\* the instruction of the generator's repertoire that starts at index pc of
\* code: its kind, its length, and its displacement or frame offset
Insn(code, pc) ==
    LET b1 == code[pc]
        b2 == IF pc + 1 <= Len(code) THEN code[pc + 1] ELSE 0
        b3 == IF pc + 2 <= Len(code) THEN code[pc + 2] ELSE 0
        I(kind, len, arg) == [kind |-> kind, len |-> len, arg |-> arg]
    IN  CASE b1 = 85 -> I("push_rbp", 1, 0)
          [] b1 = 93 -> I("pop_rbp", 1, 0)
          [] b1 = 195 -> I("ret", 1, 0)
          [] b1 = 80 -> I("push_rax", 1, 0)
          [] b1 = 89 -> I("pop_rcx", 1, 0)
          [] b1 = 184 -> I("mov_imm", 5, 0)
          [] b1 = 233 -> I("jmp", 5, SignedLe(code, pc + 1, 4))
          [] b1 = 15 /\ b2 = 132 -> I("jz", 6, SignedLe(code, pc + 2, 4))
          [] b1 = 15 /\ b2 \in {148, 156, 159} -> I("setcc", 3, 0)
          [] b1 = 72 /\ b2 = 184 -> I("mov_imm", 10, 0)
          [] b1 = 72 /\ b2 = 137 /\ b3 = 229 -> I("mov_rbp_rsp", 3, 0)
          [] b1 = 72 /\ b2 = 137 /\ b3 = 236 -> I("mov_rsp_rbp", 3, 0)
          [] b1 = 72 /\ b2 = 137 /\ b3 = 69 ->
                I("store", 4, SignedLe(code, pc + 3, 1))
          [] b1 = 72 /\ b2 = 137 /\ b3 = 133 ->
                I("store", 7, SignedLe(code, pc + 3, 4))
          [] b1 = 72 /\ b2 = 139 /\ b3 = 69 ->
                I("load", 4, SignedLe(code, pc + 3, 1))
          [] b1 = 72 /\ b2 = 139 /\ b3 = 133 ->
                I("load", 7, SignedLe(code, pc + 3, 4))
          [] b1 = 72 /\ b2 = 15 -> I("movzx", 4, 0)
          [] b1 = 72 /\ b2 \in {1, 41, 247, 49, 133, 57} -> I("alu", 3, 0)
          [] OTHER -> I("unknown", 1, 0)

\* the frame offsets of the loads and stores of code, in code order
RECURSIVE SlotAccesses(_, _)
SlotAccesses(code, pc) ==
    IF pc > Len(code) THEN <<>>
    ELSE LET i == Insn(code, pc)
         IN  (IF i.kind \in {"store", "load"} THEN <<i.arg>> ELSE <<>>)
                \o SlotAccesses(code, pc + i.len)

\* the names an expression reads or writes, in the order compile_expr emits
\* the loads and stores
RECURSIVE AccessOrder(_)
AccessOrder(expr) ==
    CASE expr.kind = "Variable" -> <<expr.name>>
      [] expr.kind = "Assignment" -> AccessOrder(expr.value) \o <<expr.name>>
      [] expr.kind = "Binary" -> AccessOrder(expr.right) \o AccessOrder(expr.left)
      [] expr.kind = "If" ->
            AccessOrder(expr.condition) \o AccessOrder(expr.true_expr)
                \o AccessOrder(expr.false_expr)
      [] OTHER -> <<>>

\* the names an expression writes, each once, in the order of their first
\* write as compile_expr meets them
RECURSIVE WriteOrder(_, _)
WriteOrder(expr, names) ==
    CASE expr.kind = "Assignment" ->
            LET v == WriteOrder(expr.value, names)
            IN  IF \E k \in 1..Len(v) : v[k] = expr.name THEN v ELSE Append(v, expr.name)
      [] expr.kind = "Binary" -> WriteOrder(expr.left, WriteOrder(expr.right, names))
      [] expr.kind = "If" ->
            WriteOrder(expr.false_expr,
                WriteOrder(expr.true_expr, WriteOrder(expr.condition, names)))
      [] OTHER -> names

\* C29: in every compiled function generate returns, the k-th name in
\* first-write order has frame offset -8 * k, the layout holds exactly the
\* names written, distinct names have distinct offsets, and every load and
\* store of the code uses the offset the layout gives the name it accesses.
C29_LayoutFirstWriteOrder ==
    [][(last'.op = "generate" /\ last'.gen_ok) =>
          LET names == WriteOrder(last'.expr, <<>>)
              layout == codegen'.variables
              accessed == AccessOrder(last'.expr)
              slots == SlotAccesses(codegen'.code, 1)
          IN  /\ DOMAIN layout = {names[k] : k \in 1..Len(names)}
              /\ \A k \in 1..Len(names) : layout[names[k]] = -8 * k
              /\ \A a, b \in DOMAIN layout : (a # b => layout[a] # layout[b])
              /\ Len(slots) = Len(accessed)
              /\ \A j \in 1..Len(slots) : slots[j] = layout[accessed[j]]]_vars

\* the sum of MaxNames assignments has been generated: its last-compiled
\* name v1 has the offset -8 * MaxNames, beyond the one-byte displacements
C29_Witness ==
    /\ last.op = "generate"
    /\ last.gen_ok
    /\ last.expr = AssignChain(MaxNames)
    /\ codegen.variables["v1"] = -8 * MaxNames
    /\ codegen.variables["v" \o ToString(MaxNames)] = -8
    /\ -8 * MaxNames < -128

\* whether every path through code from index pc, entered with depth values
\* on the operand stack, keeps the depth at or above 0 and reaches the
\* epilogue (mov rsp, rbp) with depth 0
RECURSIVE Balanced(_, _, _)
Balanced(code, pc, depth) ==
    IF pc < 1 \/ pc > Len(code) THEN FALSE
    ELSE LET i == Insn(code, pc)
         IN  CASE i.kind = "mov_rsp_rbp" -> depth = 0 /\ pc = Len(code) - 4
               [] i.kind = "push_rax" -> Balanced(code, pc + 1, depth + 1)
               [] i.kind = "pop_rcx" -> depth > 0 /\ Balanced(code, pc + 1, depth - 1)
               [] i.kind = "jz" ->
                     /\ Balanced(code, pc + 6, depth)
                     /\ Balanced(code, pc + 6 + i.arg, depth)
               [] i.kind = "jmp" -> Balanced(code, pc + 5 + i.arg, depth)
               [] i.kind \in {"push_rbp", "pop_rbp", "ret", "mov_rbp_rsp", "unknown"} -> FALSE
               [] OTHER -> Balanced(code, pc + i.len, depth)

\* the instructions of one kind in code
RECURSIVE CountInsn(_, _, _)
CountInsn(code, pc, kind) ==
    IF pc > Len(code) THEN 0
    ELSE LET i == Insn(code, pc)
         IN  (IF i.kind = kind THEN 1 ELSE 0) + CountInsn(code, pc + i.len, kind)

\* the binary operations in an expression
RECURSIVE CountBinary(_)
CountBinary(expr) ==
    CASE expr.kind = "Binary" -> 1 + CountBinary(expr.left) + CountBinary(expr.right)
      [] expr.kind = "Assignment" -> CountBinary(expr.value)
      [] expr.kind = "If" ->
            CountBinary(expr.condition) + CountBinary(expr.true_expr)
                + CountBinary(expr.false_expr)
      [] OTHER -> 0

\* C30: in every compiled function generate returns, the code holds one push
\* and one pop per binary operation, and on every path from the end of the
\* prologue the operand-stack depth never goes below its starting depth and
\* is back at it at the epilogue.
C30_StackBalanced ==
    [][(last'.op = "generate" /\ last'.gen_ok) =>
          /\ Insn(codegen'.code, 1).kind = "push_rbp"
          /\ Insn(codegen'.code, 2).kind = "mov_rbp_rsp"
          /\ CountInsn(codegen'.code, 1, "push_rax") = CountBinary(last'.expr)
          /\ CountInsn(codegen'.code, 1, "pop_rcx") = CountBinary(last'.expr)
          /\ Balanced(codegen'.code, 5, 0)]_vars

\* a subtraction whose left operand is a conditional and whose right operand
\* is a product has been generated: the conditional's two paths run between
\* the push of the product and its pop
C30_Witness ==
    /\ last.op = "generate"
    /\ last.gen_ok
    /\ last.expr \in GenNested
    /\ last.expr.left.kind = "If"
    /\ CountInsn(codegen.code, 1, "jz") = 1
    /\ CountInsn(codegen.code, 1, "push_rax") = 2

\* the code of expr read back from index pc of code, shape by shape in the
\* order compile_expr emits it: whether the instructions are those of the
\* shape and every jz and jmp displacement is target - field - 4, and the
\* index after the last instruction
RECURSIVE ReadBack(_, _, _)
ReadBack(expr, code, pc) ==
    LET At(q) == IF q >= 1 /\ q <= Len(code) THEN Insn(code, q)
                 ELSE [kind |-> "none", len |-> 1, arg |-> 0]
        R(ok, q) == [ok |-> ok, pc |-> q]
    IN  CASE expr.kind = "Number" -> R(At(pc).kind = "mov_imm", pc + At(pc).len)
          [] expr.kind = "Variable" -> R(At(pc).kind = "load", pc + At(pc).len)
          [] expr.kind = "Assignment" ->
                LET v == ReadBack(expr.value, code, pc)
                IN  R(v.ok /\ At(v.pc).kind = "store", v.pc + At(v.pc).len)
          [] expr.kind = "Binary" ->
                LET r == ReadBack(expr.right, code, pc)
                    l == ReadBack(expr.left, code, r.pc + 1)
                    op == l.pc + 1
                    n == IF expr.op \in {"Add", "Sub", "Mul"} THEN 3
                         ELSE IF expr.op = "Div" THEN 6 ELSE 10
                IN  R(/\ r.ok
                      /\ At(r.pc).kind = "push_rax"
                      /\ l.ok
                      /\ At(l.pc).kind = "pop_rcx"
                      /\ At(op).kind = "alu", op + n)
          [] expr.kind = "If" ->
                LET c == ReadBack(expr.condition, code, pc)
                    jz == c.pc + 3
                    t == ReadBack(expr.true_expr, code, jz + 6)
                    jmp == t.pc
                    false_label == jmp + 5
                    f == ReadBack(expr.false_expr, code, false_label)
                    end_label == f.pc
                IN  R(/\ c.ok
                      /\ At(c.pc).kind = "alu"
                      /\ At(jz).kind = "jz"
                      /\ At(jz).arg = false_label - (jz + 2) - 4
                      /\ t.ok
                      /\ At(jmp).kind = "jmp"
                      /\ At(jmp).arg = end_label - (jmp + 1) - 4
                      /\ f.ok, end_label)
          [] OTHER -> R(FALSE, pc)

\* C31: in every compiled function generate returns, read back after the
\* prologue, each conditional's jz displacement is (index of the first byte
\* of the false branch) - (index of the displacement field) - 4, its jmp
\* displacement is (index of the first byte after the false branch) - (index
\* of its displacement field) - 4, nested conditionals included, and the
\* epilogue follows the expression's code.
C31_JumpsPatched ==
    [][(last'.op = "generate" /\ last'.gen_ok) =>
          LET r == ReadBack(last'.expr, codegen'.code, 5)
          IN  /\ r.ok
              /\ r.pc = Len(codegen'.code) - 4]_vars

\* a conditional whose condition and two branches are conditionals has been
\* generated: four jz and four jmp, all patched
C31_Witness ==
    /\ last.op = "generate"
    /\ last.gen_ok
    /\ last.expr \in GenNestedIfs
    /\ CountInsn(codegen.code, 1, "jz") = 4
    /\ CountInsn(codegen.code, 1, "jmp") = 4
    /\ ReadBack(last.expr, codegen.code, 5).ok

\* C32: whatever the shared generator has generated before, with or without
\* success, generate returns for an expression what a new generator returns
\* for it: the same verdict and error, the same bytes and the same layout;
\* and the compiled function execute installs is that one too.
C32_GenerateIndependent ==
    [][/\ (last'.op = "generate" =>
              LET f == generate(NewCodegen, last'.expr)
              IN  /\ last'.gen_ok = f.ok
                  /\ last'.gen_err = f.err
                  /\ (f.ok =>
                        /\ codegen'.code = f.func.code
                        /\ codegen'.variables = f.func.variables))
       /\ ((steps' # steps /\ last'.should_jit) =>
              LET f == generate(NewCodegen, last'.expr)
              IN  /\ last'.gen_ok = f.ok
                  /\ (f.ok => jit_cache'[last'.hash].compiled_function = Some(f.func)))]_vars

\* a conditional that writes x and y has been generated on the generator
\* that had compiled x = 10 for the cache before
C32_Witness ==
    /\ last.op = "generate"
    /\ last.gen_ok
    /\ DOMAIN codegen.variables = {"x", "y"}
    /\ hash_expr(E_assign) \in DOMAIN jit_cache
    /\ jit_cache[hash_expr(E_assign)].compiled_function # None
    /\ gens[hash_expr(E_assign)] = 1

---------------------------------------------------------------------------
(* C33 *)

\* the names an expression may assign
RECURSIVE Assigns(_)
Assigns(expr) ==
    CASE expr.kind = "Binary" -> Assigns(expr.left) \cup Assigns(expr.right)
      [] expr.kind = "Assignment" -> {expr.name} \cup Assigns(expr.value)
      [] expr.kind = "If" ->
            Assigns(expr.condition) \cup Assigns(expr.true_expr) \cup Assigns(expr.false_expr)
      [] expr.kind = "FunctionCall" ->
            UNION {Assigns(expr.args[i]) : i \in 1..Len(expr.args)}
      [] OTHER -> {}

\* name is bound alike in the two environments
SameBinding(e1, e2, name) ==
    /\ (name \in DOMAIN e1) = (name \in DOMAIN e2)
    /\ (name \in DOMAIN e1 => e1[name] = e2[name])

\* C33: evaluating a conditional evaluates the condition and then exactly one
\* branch, the true branch when the condition is non-zero and the false
\* branch when it is zero: the outcome and the environment are those of the
\* condition followed by the branch taken, whatever the other branch would do
\* (fail, or assign: the names only it assigns keep their bindings); a
\* failing condition evaluates no branch
C33_OneBranchEvaluated ==
    [][(last'.op = "evaluate" /\ last'.expr.kind = "If") =>
          LET x == last'.expr
              c == eval_expr(x.condition, env)
              taken == IF c.value # 0 THEN x.true_expr ELSE x.false_expr
              other == IF c.value # 0 THEN x.false_expr ELSE x.true_expr
              b == eval_expr(taken, c.env)
          IN  IF ~c.ok
              THEN /\ last'.result = ExecOutcome(c, last'.time)
                   /\ env' = c.env
              ELSE /\ last'.result = ExecOutcome(b, last'.time)
                   /\ env' = b.env
                   /\ \A name \in Assigns(other) \ (Assigns(x.condition) \cup Assigns(taken)) :
                          SameBinding(env, env', name)]_vars

\* a conditional whose true branch divides by zero and whose false branch
\* assigns y has returned the assigned value under a zero condition
C33_Witness ==
    /\ last.op = "evaluate"
    /\ last.expr = If(Assignment("x", Number(0)), Binary(Number(1), "Div", Number(0)),
                      Assignment("y", Number(1)))
    /\ last.result.ok /\ last.result.value = 1
    /\ "y" \in DOMAIN env /\ env["x"] = 0

---------------------------------------------------------------------------
(* C34 *)

\* C34: an execute whose evaluation returns an error has still counted the
\* execution in the entry (1 for a new entry, one more for an old one) and,
\* where that made the entry hot, has compiled: the artifact is installed and
\* jit_compilations has grown by one (total_compilation_time_ns by the time
\* measured); but
\* total_executions and total_execution_time_ns are what they were
C34_ErrorCountsButNoTotals ==
    [][(last'.op = "execute" /\ ~last'.result.ok) =>
          LET h == last'.hash IN
          /\ h \in DOMAIN jit_cache'
          /\ jit_cache'[h].execution_count =
                IF h \in DOMAIN jit_cache THEN jit_cache[h].execution_count + 1 ELSE 1
          /\ ((last'.should_jit /\ last'.gen_ok) =>
                /\ jit_cache'[h].compiled_function # None
                /\ stats'.jit_compilations = stats.jit_compilations + 1
                /\ stats'.total_compilation_time_ns >= stats.total_compilation_time_ns)
          /\ stats'.total_executions = stats.total_executions
          /\ stats'.total_execution_time_ns = stats.total_execution_time_ns]_vars

\* the execution that failed with a division by zero is the one that made
\* the entry hot and installed its artifact
C34_Witness ==
    /\ last.op = "execute" /\ last.expr = E_divzero
    /\ ~last.result.ok /\ last.result.err = "Division by zero"
    /\ last.should_jit /\ last.gen_ok
    /\ jit_cache[last.hash].execution_count = hot_threshold
    /\ jit_cache[last.hash].compiled_function # None
    /\ stats.jit_compilations = 1 /\ stats.total_executions = 0

---------------------------------------------------------------------------
(* C35 *)

\* C35: when an execute fails part-way, nothing is rolled back: the names the
\* expression does not assign are bound as before, and where the left operand
\* of a failing operation was evaluated, the names it assigned (and the right
\* operand does not) are bound as the left operand left them; a later execute
\* reads those bindings (x * 3 + 7 is computed from the x in the environment)
C35_NoRollbackOnError ==
    [][/\ ((last'.op = "execute" /\ ~last'.result.ok) =>
            LET x == last'.expr IN
            /\ \A name \in (DOMAIN env \cup DOMAIN env') \ Assigns(x) :
                   SameBinding(env, env', name)
            /\ (x.kind = "Binary" =>
                   LET l == eval_expr(x.left, env)
                   IN  l.ok => \A name \in Assigns(x.left) \ Assigns(x.right) :
                                   /\ name \in DOMAIN env'
                                   /\ SameBinding(l.env, env', name)))
       /\ ((last'.op = "execute" /\ last'.expr = E_var /\ "x" \in DOMAIN env) =>
            /\ last'.result.ok
            /\ last'.result.value = env["x"] * 3 + 7)]_vars

\* x * 3 + 7 has returned 22 where x = 10 was never executed: the 5 comes
\* from the execute of (x = 5) / 0, which failed
C35_Witness ==
    /\ last.op = "execute" /\ last.expr = E_var
    /\ last.result.ok /\ last.result.value = 22
    /\ calls[E_assign] = 0 /\ calls[E_partial] > 0
    /\ stats.total_executions = 1

---------------------------------------------------------------------------
(* C36 *)

\* C36: when execute_string fails in the lexer or the parser (the text does
\* not parse), the request is answered with the error and the cache (entries,
\* counts, artifacts), the statistics and the environment are what they were
C36_ParseErrorChangesNothing ==
    [][\A t \in Threads :
          (/\ threads[t].pc = "guard" /\ threads[t].request = "execute"
           /\ threads'[t].pc = "respond"
           /\ ~ParsedCodes[threads[t].code].ok) =>
              /\ threads'[t].response.status_code = 400
              /\ threads'[t].response.result = None
              /\ jit_cache' = jit_cache
              /\ stats' = stats
              /\ env' = env]_vars

\* "1 +" has been refused by the parser while the cache holds an entry and
\* the totals count an execution
C36_Witness ==
    \E t \in Threads :
        /\ threads[t].pc = "respond" /\ threads[t].request = "execute"
        /\ threads[t].code = S_incomplete
        /\ threads[t].response.status_code = 400
        /\ jit_cache # [h \in {} |-> 0]
        /\ stats.total_executions > 0

---------------------------------------------------------------------------
(* C37 *)

\* C37: in every state, an entry that holds a compiled function has an
\* execution_count of hot_threshold or more; and a compiled function appears
\* in an entry only in an execute of that entry's fingerprint whose
\* expression passes is_jit_compilable
C37_ArtifactOnlyWhenHotAndCompilable ==
    /\ [](\A h \in DOMAIN jit_cache :
            jit_cache[h].compiled_function # None =>
                jit_cache[h].execution_count >= hot_threshold)
    /\ [][\A h \in DOMAIN jit_cache' :
            (/\ jit_cache'[h].compiled_function # None
             /\ (h \in DOMAIN jit_cache =>
                    jit_cache[h].compiled_function # jit_cache'[h].compiled_function)) =>
                /\ last'.op = "execute"
                /\ last'.hash = h
                /\ is_jit_compilable(last'.expr)]_vars

\* 2 + 3 * 4 holds a compiled function after more than hot_threshold
\* executions while 5 % 3, as hot, holds none
C37_Witness ==
    /\ hash_expr(E_arith) \in DOMAIN jit_cache
    /\ jit_cache[hash_expr(E_arith)].compiled_function # None
    /\ jit_cache[hash_expr(E_arith)].execution_count > hot_threshold
    /\ hash_expr(E_mod) \in DOMAIN jit_cache
    /\ jit_cache[hash_expr(E_mod)].compiled_function = None
    /\ jit_cache[hash_expr(E_mod)].execution_count >= hot_threshold

---------------------------------------------------------------------------
(* C38 *)

\* every path of code from index pc on, where `stored` are the frame offsets
\* stored to so far, `depth` the operands pushed and not yet popped (the
\* prologue leaves rsp = rbp, so the next push writes [rbp - 8 * (depth + 1)])
\* and `clobbered` the stored offsets a push has overwritten since: every
\* load finds its offset stored (checkStore) and not clobbered (checkPush)
RECURSIVE PathsSafe(_, _, _, _, _, _, _)
PathsSafe(code, pc, stored, clobbered, depth, checkStore, checkPush) ==
    IF pc < 1 \/ pc > Len(code) THEN FALSE
    ELSE LET i == Insn(code, pc)
             slot == (0 - 8) * (depth + 1)
         IN  CASE i.kind = "mov_rsp_rbp" -> TRUE
               [] i.kind = "push_rax" ->
                     PathsSafe(code, pc + 1, stored,
                               IF slot \in stored THEN clobbered \cup {slot} ELSE clobbered,
                               depth + 1, checkStore, checkPush)
               [] i.kind = "pop_rcx" ->
                     PathsSafe(code, pc + 1, stored, clobbered, depth - 1,
                               checkStore, checkPush)
               [] i.kind = "store" ->
                     PathsSafe(code, pc + i.len, stored \cup {i.arg}, clobbered \ {i.arg},
                               depth, checkStore, checkPush)
               [] i.kind = "load" ->
                     /\ (checkStore => i.arg \in stored)
                     /\ (checkPush => i.arg \notin clobbered)
                     /\ PathsSafe(code, pc + i.len, stored, clobbered, depth,
                                  checkStore, checkPush)
               [] i.kind = "jz" ->
                     /\ PathsSafe(code, pc + 6, stored, clobbered, depth,
                                  checkStore, checkPush)
                     /\ PathsSafe(code, pc + 6 + i.arg, stored, clobbered, depth,
                                  checkStore, checkPush)
               [] i.kind = "jmp" ->
                     PathsSafe(code, pc + 5 + i.arg, stored, clobbered, depth,
                               checkStore, checkPush)
               [] i.kind \in {"push_rbp", "pop_rbp", "ret", "mov_rbp_rsp", "unknown"} -> FALSE
               [] OTHER ->
                     PathsSafe(code, pc + i.len, stored, clobbered, depth,
                               checkStore, checkPush)

\* on every path each load from a slot comes after a store to it
LoadsAfterStores(code) == PathsSafe(code, 5, {}, {}, 0, TRUE, FALSE)

\* on no path a push overwrites a stored slot that is loaded afterwards
NoPushOverSlot(code) == PathsSafe(code, 5, {}, {}, 0, FALSE, TRUE)

\* C38: in every compiled function generate returns, on every control-flow
\* path through the code each load from a variable slot is preceded by a
\* store to that slot, and no push of a binary operand overwrites a slot that
\* is loaded afterwards.
C38_SlotsSafeOnEveryPath ==
    (last.op = "generate" /\ last.gen_ok) =>
        /\ LoadsAfterStores(codegen.code)
        /\ NoPushOverSlot(codegen.code)

---------------------------------------------------------------------------
(* C39 *)

\* the eight bytes of rax, low byte first, after the load instruction at
\* index pc of code has run: `mov eax, imm32` (b8) writes the four bytes of
\* its immediate and clears the upper four, `mov rax, imm64` (48 b8) writes
\* the eight bytes of its immediate
RaxAfterLoad(code, pc) ==
    CASE code[pc] = 184 -> SubSeq(code, pc + 1, pc + 4) \o <<0, 0, 0, 0>>
      [] code[pc] = 72 /\ code[pc + 1] = 184 -> SubSeq(code, pc + 2, pc + 9)
      [] OTHER -> <<>>

\* C39: for every literal n, the load generate emits for Number(n) leaves
\* exactly n (its eight bytes in two's complement) in rax, in the short form
\* used for -128 <= n <= 127 and in the 64-bit immediate form.
C39_LiteralLoadExact ==
    (last.op = "generate" /\ last.expr.kind = "Number" /\ last.gen_ok) =>
        /\ Insn(codegen.code, 5).kind = "mov_imm"
        /\ Insn(codegen.code, 5).len = (IF last.expr.n >= -128 /\ last.expr.n <= 127
                                        THEN 5 ELSE 10)
        /\ RaxAfterLoad(codegen.code, 5) = LeBytes(last.expr.n, 8)

====
